---------------------------- MODULE Spec2Model ----------------------------
(***************************************************************************)
(* The buy-triggered launch pipeline: src/src/monitor.js (trade events,    *)
(* dedupe, threshold, cooldown), src/src/launcher.js (launchAnnoyingCoin)  *)
(* and src/src/walletManager.js (wallet rotation and provisioning), with   *)
(* the wallet store of src/unnamed/part_001 (firebase.js).  The polling    *)
(* monitor kept in walletManager.js 425-681 is outside this module.        *)
(*                                                                         *)
(* One action is one turn of the Node.js event loop: a callback runs from  *)
(* its resume point to its next await of an external answer.  Awaits that  *)
(* only chain promises (microtasks) do not end an action.                  *)
(***************************************************************************)
EXTENDS Integers, Sequences, FiniteSets, TLC

(***************************************************************************)
(* Configuration.  The first four are read from the environment            *)
(* (LAUNCH_COOLDOWN_MS, MIN_BUY_SOL, MAX_LAUNCHES_PER_WALLET,              *)
(* MAX_TEST_LAUNCHES); the model runs the program with these values set.   *)
(* Time is in milliseconds (Date.now()); amounts are in hundredths of a    *)
(* SOL, so that 15 is the default MIN_BUY_SOL of 0.15.                     *)
(***************************************************************************)
LAUNCH_COOLDOWN == 2
\* parseInt(process.env.LAUNCH_COOLDOWN_MS || '30000'): the default
DEFAULT_LAUNCH_COOLDOWN == 30000
MIN_BUY_AMOUNT == 15
MAX_LAUNCHES_PER_WALLET == 2
MAX_TEST_LAUNCHES == 1
\* balance > 0.03 * LAMPORTS_PER_SOL in getNextWallet, in hundredths of a SOL
MIN_OPERABLE_BALANCE == 3
\* MIN_MASTER_BALANCE 0.2 and SOL_PER_WALLET 0.15, in hundredths of a SOL
MIN_MASTER_BALANCE == 20
SOL_PER_WALLET == 15
\* setTimeout(reconnectFn, 5000) in the close handler, scaled like the cooldown
RECONNECT_DELAY == 1

\* processedTxs.size > 1000 starts the trim; arr.slice(-500) is what it keeps.
PROCESSED_HIGH_WATER == 1000
PROCESSED_KEEP == 500
\* recentLaunches.length > 100 cuts the in-memory history to 100.
RECENT_CAP == 100
\* getRecentLaunches(20) at start, recentLaunches.slice(0, 20) in getStatus
RECENT_SHOWN == 20
POLL_INTERVAL == 1
POLL_LIMIT == 5

(***************************************************************************)
(* Bounds of the model.                                                    *)
(***************************************************************************)
\* clock ticks after the first event can arrive
MaxTicks == 3
\* distinct new transaction signatures the feed delivers
MaxSigs == 2
\* wallets in the store when the process starts
MaxInitWallets == 1
\* launches in flight at once: the feed delivers no further approvable trade
\* while this many wait for external answers
MaxInFlight == 2
\* store operations (reads and writes of the Firebase nodes) that fail in a run
MaxStoreFaults == 1
\* startMonitoring calls that get past the isMonitoring test
MaxStarts == 2
MaxPolled == 2
\* signatures already in processedTxs at the start of SpecTrim
Prefill == PROCESSED_HIGH_WATER - 1

TargetCA == "target"
OtherCA == "other"
NoCA == "null"
NoWallet == 0

VARIABLES
    now,                \* Date.now()
    isMonitoring, targetCA, monitorPc,
    totalLaunches, recentLaunches, sessionLaunches,
    lastLaunchTime,
    processedTxs,       \* the Set, in insertion order
    testMode,           \* TEST_MODE
    masterWallet,       \* TRUE when MASTER_WALLET loaded
    childWallets, currentWalletIndex, isInitialized,
    fbWallets,          \* the wallets/ node of the store
    fbStats,            \* the stats and recentLaunches nodes of the store
    tasks,              \* the launchAnnoyingCoin calls in flight, oldest first
    lastEvent,          \* history: the trade handled by the latest step, if any
    lastResult,         \* history: the launch record returned by the latest step, if any
    lastAnswer,         \* history: the balance or transfer answer the latest step received
    lastFailed,         \* history: the launch approved last has returned a failure
    approvedAt,         \* history: the time of the latest approval, 0 if none
    sigInfo,            \* history: per signature, launches and gate passes
    gateCount,          \* history: inserts into processedTxs so far
    regaps,             \* history: inserts between two gate passes of one signature
    nextSig,            \* history: the next signature the feed has not used
    sigPool,            \* the signatures the feed may deliver
    fb0,                \* history: the store at process start
    keys,               \* history: keypairs generated for new wallets
    horizon,            \* the clock stops here
    observe,            \* the histories this run follows: "events", "results"
    storeFaults,        \* store operations that failed so far
    apiKey,             \* TRUE when PUMPPORTAL_API_KEY is set
    launchCooldown,     \* LAUNCH_COOLDOWN as the environment of the run sets it
    sockets,            \* the WebSocket objects alive: how many of each kind
    timers,             \* per channel, the due times of the pending reconnect timers
    starts,             \* startMonitoring calls that got past the isMonitoring test
    lastChannel,        \* history: what the latest step did on a channel, if anything
    walletStats,        \* the getWalletStats call in flight and what it has read
    pending,            \* the signatures whose processTransaction awaits getBuyAmount
    poller,             \* pollRecentTransactions: where it waits and what is left
    txInfo,             \* what getTransaction answers to the getBuyAmount call
    buyAmount,          \* what that getBuyAmount call returned, once it has
    statsRun,           \* the stats node as the latest getStats request found it,
                        \* and history: the launches that succeeded since it
    reliable            \* TRUE: every external call succeeds and answers before
                        \* the next trade is approved

vars == <<now, isMonitoring, targetCA, monitorPc, totalLaunches, recentLaunches,
          sessionLaunches, lastLaunchTime, processedTxs, testMode, masterWallet,
          childWallets, currentWalletIndex, isInitialized, fbWallets, fbStats,
          tasks, lastEvent, lastResult, lastAnswer, lastFailed, approvedAt, sigInfo,
          gateCount, regaps,
          nextSig, sigPool, fb0, keys, horizon, observe, storeFaults, reliable,
          apiKey, launchCooldown, sockets, timers, starts, lastChannel,
          walletStats, pending, poller, txInfo, buyAmount, statsRun>>

monitorVars == <<isMonitoring, targetCA, monitorPc>>
statsVars == <<totalLaunches, recentLaunches, sessionLaunches>>
walletVars == <<childWallets, currentWalletIndex, isInitialized, fbWallets>>
gateVars == <<processedTxs, sigInfo, gateCount, regaps, nextSig>>
configVars == <<testMode, masterWallet, sigPool, fb0, horizon, observe, reliable,
                apiKey, launchCooldown>>
channelVars == <<sockets, timers, starts>>
pollVars == <<pending, poller>>
amountVars == <<txInfo, buyAmount>>

(***************************************************************************)
(* Values of trade.solAmount after JSON.parse.                             *)
(***************************************************************************)
Num(n) == [kind |-> "number", val |-> n]
Undefined == [kind |-> "undefined", val |-> 0]
Null == [kind |-> "null", val |-> 0]
IsNumber(a) == a.kind = "number"

Amounts == {Num(MIN_BUY_AMOUNT - 1), Num(MIN_BUY_AMOUNT), Num(MIN_BUY_AMOUNT + 1),
            Undefined, Null}

\* JavaScript a < b for b a number: null is 0, undefined is NaN (never less).
JsLess(a, b) ==
    CASE a.kind = "number" -> a.val < b
      [] a.kind = "null" -> 0 < b
      [] OTHER -> FALSE

\* Date.now() at process start: lastLaunchTime is 0 and the epoch lies more
\* than a cooldown back, so the first eligible buy finds the cooldown clear.
StartTime == LAUNCH_COOLDOWN

NoEvent == [outcome |-> "None", mint |-> NoCA, txType |-> "none", signature |-> 0,
            solAmount |-> Undefined, at |-> 0, lastBefore |-> 0, seen |-> FALSE,
            failedBefore |-> FALSE]
NoResult == [kind |-> "None", signature |-> 0, error |-> ""]
NoAnswer == [call |-> "None", signature |-> 0, wallet |-> 0, value |-> 0,
             taken |-> FALSE]


(***************************************************************************)
(* monitor.js: the gates of processTradeEvent.                             *)
(***************************************************************************)
\* A membership test that never finds the signature
HasProcessedNever(set, signature) == FALSE

\* processedTxs.has(signature)
HasProcessed(set, signature) == \E i \in 1..Len(set) : set[i] = signature

\* A trim that keeps one entry fewer
TrimProcessedShort(arr) ==
    SubSeq(arr, Len(arr) - PROCESSED_KEEP + 2, Len(arr))

\* arr.slice(-500): the last PROCESSED_KEEP entries in insertion order
TrimProcessed(arr) ==
    SubSeq(arr, Len(arr) - PROCESSED_KEEP + 1, Len(arr))

\* A size check that lets the set grow by one more entry
AddProcessedLate(set, signature) ==
    LET added == Append(set, signature)
    IN  IF Len(added) > PROCESSED_HIGH_WATER + 1 THEN TrimProcessed(added) ELSE added

\* processedTxs.add(signature), then the size check and the trim
AddProcessed(set, signature) ==
    LET added == Append(set, signature)
    IN  IF Len(added) > PROCESSED_HIGH_WATER THEN TrimProcessed(added) ELSE added

\* A threshold test that also rejects the minimum itself
BelowMinimumInclusive(amount) == JsLess(amount, MIN_BUY_AMOUNT + 1)

\* buyAmountSol < MIN_BUY_AMOUNT
BelowMinimum(amount) == JsLess(amount, MIN_BUY_AMOUNT)

\* A log line that formats any value
ToFixedNeverThrows(amount) == FALSE

\* buyAmountSol.toFixed(4) in the log line: a TypeError unless a number
ToFixedThrows(amount) == ~IsNumber(amount)

\* trade.signature of a message without the field
NoSignature == 0

\* signature.slice(0, 20) in the log line: a TypeError when undefined
SliceThrows(signature) == signature = NoSignature

\* TEST_MODE && sessionLaunches >= MAX_TEST_LAUNCHES
TestLimitReached == testMode /\ sessionLaunches >= MAX_TEST_LAUNCHES

\* A cooldown one millisecond shorter
CooldownActiveShort(t) == t - lastLaunchTime < launchCooldown - 1

\* A cooldown that a failed launch ends
CooldownActiveUntilFailure(t) ==
    ~lastFailed /\ t - lastLaunchTime < launchCooldown

\* A gate without the cooldown
CooldownNever(t) == FALSE

\* now - lastLaunchTime < LAUNCH_COOLDOWN
CooldownActive(t) == t - lastLaunchTime < launchCooldown

\* A filter that lets the sells on the target through
DecideAnyKind(trade, t) ==
    IF trade.mint # targetCA THEN "Ignored"
    ELSE IF HasProcessed(processedTxs, trade.signature) THEN "DuplicateSkip"
    ELSE IF BelowMinimum(trade.solAmount) THEN "BelowThreshold"
    ELSE IF ToFixedThrows(trade.solAmount) THEN "Threw"
    ELSE IF SliceThrows(trade.signature) THEN "Threw"
    ELSE IF TestLimitReached THEN "TestSkip"
    ELSE IF CooldownActive(t) THEN "CooldownSkip"
    ELSE "Approved"

\* The outcome of processTradeEvent(trade) read at time t, in the code's order.
Decide(trade, t) ==
    IF trade.mint # targetCA \/ trade.txType # "buy" THEN "Ignored"
    ELSE IF HasProcessed(processedTxs, trade.signature) THEN "DuplicateSkip"
    ELSE IF BelowMinimum(trade.solAmount) THEN "BelowThreshold"
    ELSE IF ToFixedThrows(trade.solAmount) THEN "Threw"
    ELSE IF SliceThrows(trade.signature) THEN "Threw"
    ELSE IF TestLimitReached THEN "TestSkip"
    ELSE IF CooldownActive(t) THEN "CooldownSkip"
    ELSE "Approved"

\* The outcomes in which the signature went through the dedupe gate.
PassedGate(outcome) == outcome \notin {"Ignored", "DuplicateSkip"}

(***************************************************************************)
(* walletManager.js: the pool.                                             *)
(***************************************************************************)
Wallet(pk, n) == [publicKey |-> pk, launchCount |-> n]

\* A loop that takes the wallet at the cursor whatever its launchCount
ScanFromAny(pool, cursor, i) ==
    IF i >= Len(pool) THEN [found |-> FALSE, i |-> i]
    ELSE [found |-> TRUE, i |-> i]

\* The for loop of getNextWallet from iteration i on: the first iteration that
\* reaches the balance read, if any.  childWallets.length is read each time.
RECURSIVE ScanFrom(_, _, _)
ScanFrom(pool, cursor, i) ==
    IF i >= Len(pool) THEN [found |-> FALSE, i |-> i]
    ELSE IF pool[((cursor + i) % Len(pool)) + 1].launchCount < MAX_LAUNCHES_PER_WALLET
         THEN [found |-> TRUE, i |-> i]
         ELSE ScanFrom(pool, cursor, i + 1)

\* The awaits at which a call of launchAnnoyingCoin waits for an answer
AwaitPoints == {"load", "bal", "mbal", "xfer", "save", "platform"}

\* A launch without the catch: the error leaves launchAnnoyingCoin
LaunchFailedUncaught(t, message) ==
    [t EXCEPT !.pc = "threw", !.error = message]

\* launchAnnoyingCoin's catch: the record with success false
LaunchFailed(t, message) ==
    [t EXCEPT !.pc = "failed", !.error = message]

\* generateNewWallet up to its first await
GenerateNewWallet(t) ==
    IF ~masterWallet THEN LaunchFailed(t, "Master wallet not loaded!")
    ELSE [t EXCEPT !.pc = "mbal"]

\* getNextWallet from loop iteration i to its next await
GetNextWalletFrom(t, pool, cursor, i) ==
    LET s == ScanFrom(pool, cursor, i)
        idx == (cursor + s.i) % Len(pool)
    IN  IF s.found
        THEN [t EXCEPT !.pc = "bal", !.i = s.i, !.idx = idx,
                       !.wallet = pool[idx + 1].publicKey]
        ELSE GenerateNewWallet(t)

\* getNextWallet from its entry to its first await
GetNextWallet(t) ==
    IF ~isInitialized THEN [t EXCEPT !.pc = "load"]
    ELSE GetNextWalletFrom(t, childWallets, currentWalletIndex, 0)

\* childWallets.find(w => w.publicKey === publicKey): its index, 0 if none
FindWallet(pool, pk) ==
    IF \E j \in 1..Len(pool) : pool[j].publicKey = pk
    THEN CHOOSE j \in 1..Len(pool) :
            /\ pool[j].publicKey = pk
            /\ \A k \in 1..(j - 1) : pool[k].publicKey # pk
    ELSE 0

\* incrementWalletLaunches up to its await: wallet.launchCount++
IncrementWalletLaunches(pool, pk) ==
    LET j == FindWallet(pool, pk)
    IN  IF j = 0 THEN pool
        ELSE [pool EXCEPT ![j].launchCount = pool[j].launchCount + 1]

\* firebase.js updateWalletLaunches: update() of wallets/<publicKey>
UpdateWalletLaunches(store, pk, n) ==
    [j \in 1..Len(store) |->
        IF store[j].publicKey = pk THEN Wallet(pk, n) ELSE store[j]]

\* An unshift that is never cut
UnshiftUncut(list, result) == <<result>> \o list

\* recentLaunches.unshift(result), cut to the first RECENT_CAP
Unshift(list, result) ==
    LET grown == <<result>> \o list
    IN  IF Len(grown) > RECENT_CAP THEN SubSeq(grown, 1, RECENT_CAP) ELSE grown

\* A call of launchAnnoyingCoin(signature, buyAmountSol): where it waits (pc),
\* the loop variables i and idx of getNextWallet and the wallet it holds;
\* erred is history: a balance read of this call threw
NewTask(trade) ==
    [signature |-> trade.signature, latest |-> TRUE,
     pc |-> "start", i |-> 0, idx |-> 0, wallet |-> NoWallet, error |-> "",
     erred |-> FALSE]

InFlight == 1..Len(tasks)

\* tasks without its k-th entry
Remove(seq, k) == SubSeq(seq, 1, k - 1) \o SubSeq(seq, k + 1, Len(seq))

Min(a, b) == IF a < b THEN a ELSE b

(***************************************************************************)
(* walletManager.js: getWalletStats.                                       *)
(***************************************************************************)
\* No getWalletStats call is in flight.  While one is: the await it is at, the
\* next index of its loop over childWallets, the array of the loop once
\* childWallets refers to another array, and stats.children.
NoStats == [pc |-> "idle", i |-> 0, detached |-> FALSE, list |-> <<>>,
            children |-> <<>>]

\* childWallets = wallets.map(...) makes a new array: a for...of that runs over
\* the array childWallets referred to goes on with that one
Detached(stats, pool) ==
    IF stats.pc = "child" /\ ~stats.detached
    THEN [stats EXCEPT !.detached = TRUE, !.list = pool]
    ELSE stats

(***************************************************************************)
(* walletManager.js 438-681: the pipeline of onLogs and                    *)
(* pollRecentTransactions.                                                 *)
(***************************************************************************)
\* pollRecentTransactions is not running.  While it runs: the await it is at
\* ("fetch": getSignaturesForAddress, "item": processTransaction of current,
\* "sleep": the timer), the signatures of the answer still to handle, and the
\* time the timer is due
NoPoller == [pc |-> "off", current |-> NoSignature, queue |-> <<>>, due |-> 0]

(***************************************************************************)
(* walletManager.js 490-533: getBuyAmount.  Balances and fees are in       *)
(* lamports; the number returned is in lamports too, the code divides each *)
(* candidate by LAMPORTS_PER_SOL before it compares, which keeps the order.*)
(***************************************************************************)
\* txInfo.meta.fee || 5000
DEFAULT_FEE == 5000
\* accounts of a transaction
MaxAccounts == 2
\* balances an account has before and after the transaction
Lamports == {0, 5000, 10000, 10001, 20002}
\* meta.fee: missing, or what the chain charged (5000 lamports per signature)
Fees == {Undefined, Num(DEFAULT_FEE), Num(2 * DEFAULT_FEE)}

\* No getBuyAmount call is followed
NoTx == [state |-> "none", fee |-> Undefined, preBalances |-> <<>>,
         postBalances |-> <<>>]
NotCalled == [kind |-> "pending", val |-> 0]

\* No getStats request was sent and no launch has succeeded
NoRun == [asked |-> 0, successes |-> 0]

\* What getTransaction does: it throws ("rejected"), answers null, answers
\* a transaction without meta, with meta without preBalances or without
\* postBalances, or with both lists ("ok"), which have one entry per account
TxInfos ==
    {[NoTx EXCEPT !.state = st] :
        st \in {"rejected", "null", "nometa", "nopre", "nopost"}}
    \cup {[state |-> "ok", fee |-> f, preBalances |-> pre, postBalances |-> post] :
            f \in Fees,
            <<pre, post>> \in UNION {[1..n -> Lamports] \X [1..n -> Lamports] :
                                       n \in 0..MaxAccounts}}

\* const fee = txInfo.meta.fee || 5000
FeeOf(tx) == IF tx.fee = Undefined \/ tx.fee.val = 0 THEN DEFAULT_FEE ELSE tx.fee.val

\* (i === 0 ? fee : 0), the accounts counted from 1 here
FeeShareAll(i, fee) == fee
FeeShare(i, fee) == IF i = 1 THEN fee ELSE 0

\* The for loop of getBuyAmount from account i on, maxSpent so far
RECURSIVE MaxSpentFrom(_, _, _, _)
MaxSpentFrom(tx, fee, i, maxSpent) ==
    IF i > Len(tx.preBalances) THEN maxSpent
    ELSE LET spent == tx.preBalances[i] - tx.postBalances[i]
             actualSpent == spent - FeeShare(i, fee)
         IN  MaxSpentFrom(tx, fee, i + 1,
                          IF spent > fee /\ actualSpent > maxSpent
                          THEN actualSpent ELSE maxSpent)

GetBuyAmount(tx) ==
    IF tx.state # "ok" THEN Null
    ELSE IF Len(tx.preBalances) = 0 THEN Null
    ELSE Num(MaxSpentFrom(tx, FeeOf(tx), 1, 0))

(***************************************************************************)
(* monitor.js: the sockets of createWebSocket.                             *)
(***************************************************************************)
BondingCurve == "Bonding Curve"
PumpSwap == "Pump-Swap"
Channels == {BondingCurve, PumpSwap}

\* A WebSocket object: its channel, its readyState, and whether the module
\* variable of its channel (wsBondingCurve, wsPumpSwap) refers to it
SocketKinds == [chan : Channels, state : {"connecting", "open", "closing"},
                held : BOOLEAN]

NoSockets == [s \in SocketKinds |-> 0]

\* history: the channels a step acted on, the keys of the subscription it
\* sent, and isMonitoring as the step read it
NoChannelEvent == [event |-> "None", chans |-> {}, keys |-> NoCA,
                   monitoring |-> FALSE, waited |-> 0]

ChannelEvent(event, chans, sent) ==
    [event |-> event, chans |-> chans, keys |-> sent, monitoring |-> isMonitoring,
     waited |-> 0]

\* The socket a new one replaces in the module variable stays alive
Unhold(bag, chan) ==
    [s \in SocketKinds |->
        IF s.chan # chan THEN bag[s]
        ELSE IF s.held THEN 0
        ELSE bag[s] + bag[[s EXCEPT !.held = TRUE]]]

\* createWebSocket(name, url, reconnectFn) assigned to the module variable.
\* Where the channels are not followed the socket counts as open at once.
CreateWebSocket(bag, chan) ==
    LET new == [chan |-> chan,
                state |-> IF "channels" \in observe THEN "connecting" ELSE "open",
                held |-> TRUE]
    IN  [Unhold(bag, chan) EXCEPT ![new] = @ + 1]

ConnectBondingCurveWS(bag) == CreateWebSocket(bag, BondingCurve)

\* connectPumpSwapWS returns at once without PUMPPORTAL_API_KEY
ConnectPumpSwapWS(bag) == IF ~apiKey THEN bag ELSE CreateWebSocket(bag, PumpSwap)

ConnectWebSockets(bag) == ConnectPumpSwapWS(ConnectBondingCurveWS(bag))

\* A socket can emit a message: it is open, or close() was called on it and
\* its close event is still to come
Receiving ==
    {s \in SocketKinds : s.state \in {"open", "closing"} /\ sockets[s] > 0} # {}

(***************************************************************************)
(* Initial states: the module-level initialisers of monitor.js and         *)
(* walletManager.js, a configuration, and a store left by earlier runs.    *)
(***************************************************************************)
Stores ==
    UNION {[1..n -> 0..MAX_LAUNCHES_PER_WALLET] : n \in 0..MaxInitWallets}

InitProcess ==
    /\ isMonitoring = FALSE
    /\ targetCA = NoCA
    /\ monitorPc = "idle"
    /\ totalLaunches = 0
    /\ recentLaunches = <<>>
    /\ sessionLaunches = 0
    /\ lastLaunchTime = 0
    /\ masterWallet \in BOOLEAN
    /\ childWallets = <<>>
    /\ currentWalletIndex = 0
    /\ isInitialized = FALSE
    /\ \E counts \in Stores :
          fbWallets = [j \in 1..Len(counts) |-> Wallet(j, counts[j])]
    /\ fb0 = fbWallets
    /\ fbStats = [totalLaunches |-> 0, recentLaunches |-> <<>>]
    /\ tasks = <<>>
    /\ walletStats = NoStats
    /\ pending = {}
    /\ poller = NoPoller
    /\ txInfo = NoTx
    /\ buyAmount = NotCalled
    /\ statsRun = NoRun
    /\ lastEvent = NoEvent
    /\ lastResult = NoResult
    /\ lastAnswer = NoAnswer
    /\ lastFailed = FALSE
    /\ approvedAt = 0
    /\ storeFaults = 0
    /\ sockets = NoSockets
    /\ timers = [c \in Channels |-> <<>>]
    /\ starts = 0
    /\ lastChannel = NoChannelEvent
    /\ regaps = {}
    /\ keys = 0

\* TEST_MODE is off unless the environment sets it to 'true'
InitCommon ==
    /\ InitProcess
    /\ testMode = FALSE

NoSigInfo == [passes |-> 0, launches |-> 0, lastPass |-> 0]

\* A fresh process; the history of the trade events is followed.
Init ==
    /\ InitCommon
    /\ now = StartTime
    /\ observe = {"events"}
    /\ reliable = FALSE
    /\ apiKey = TRUE
    /\ launchCooldown = LAUNCH_COOLDOWN
    /\ horizon = StartTime + MaxTicks
    /\ processedTxs = <<>>
    /\ sigPool = 1..MaxSigs
    /\ sigInfo = [s \in sigPool |-> NoSigInfo]
    /\ gateCount = 0
    /\ nextSig = 1

\* The signature dropped last and the one kept first by the trim of
\* 1, 2, ..., PROCESSED_HIGH_WATER + 1
OldSigs == {PROCESSED_HIGH_WATER + 1 - PROCESSED_KEEP,
            PROCESSED_HIGH_WATER + 2 - PROCESSED_KEEP}

\* After Prefill distinct buys on the target, none of them launched:
\* signatures 1..Prefill were inserted in this order.  The master wallet is
\* loaded and the store holds MaxInitWallets unused wallets.
InitTrim ==
    /\ InitCommon
    /\ now = StartTime
    /\ masterWallet
    /\ Len(fbWallets) = MaxInitWallets
    /\ \A j \in 1..Len(fbWallets) : fbWallets[j].launchCount = 0
    /\ observe = {}
    /\ reliable = FALSE
    /\ apiKey = TRUE
    /\ launchCooldown = LAUNCH_COOLDOWN
    /\ horizon = StartTime + MaxTicks
    /\ processedTxs = [j \in 1..Prefill |-> j]
    /\ sigPool = OldSigs \cup ((Prefill + 1)..(Prefill + MaxSigs))
    /\ sigInfo = [s \in sigPool |->
                    IF s <= Prefill
                    THEN [passes |-> 1, launches |-> 0, lastPass |-> s]
                    ELSE NoSigInfo]
    /\ gateCount = Prefill
    /\ nextSig = Prefill + 1

\* A fresh process; the history of the launch results is followed.
InitPool ==
    /\ InitCommon
    /\ now = StartTime
    /\ observe = {"results"}
    /\ reliable = FALSE
    /\ apiKey = TRUE
    /\ launchCooldown = LAUNCH_COOLDOWN
    /\ horizon = StartTime + MaxTicks
    /\ processedTxs = <<>>
    /\ sigPool = 1..MaxSigs
    /\ sigInfo = [s \in sigPool |-> NoSigInfo]
    /\ gateCount = 0
    /\ nextSig = 1

\* A fresh process started with TEST_MODE=true, the master wallet loaded and
\* MaxInitWallets unused wallets in the store.
InitTest ==
    /\ InitProcess
    /\ testMode = TRUE
    /\ masterWallet
    /\ Len(fbWallets) = MaxInitWallets
    /\ \A j \in 1..Len(fbWallets) : fbWallets[j].launchCount = 0
    /\ now = StartTime
    /\ observe = {}
    /\ reliable = FALSE
    /\ apiKey = TRUE
    /\ launchCooldown = LAUNCH_COOLDOWN
    /\ horizon = StartTime + MaxTicks
    /\ processedTxs = <<>>
    /\ sigPool = 1..MaxSigs
    /\ sigInfo = [s \in sigPool |-> NoSigInfo]
    /\ gateCount = 0
    /\ nextSig = 1

\* A fresh process and a feed that also sends buys without a signature field;
\* the history of the trade events is followed.
InitFeed ==
    /\ InitCommon
    /\ now = StartTime
    /\ observe = {"events"}
    /\ reliable = FALSE
    /\ apiKey = TRUE
    /\ launchCooldown = LAUNCH_COOLDOWN
    /\ horizon = StartTime + MaxTicks
    /\ processedTxs = <<>>
    /\ sigPool = {NoSignature} \cup (1..(MaxSigs - 1))
    /\ sigInfo = [s \in sigPool |-> NoSigInfo]
    /\ gateCount = 0
    /\ nextSig = 1

\* A fresh process with the master wallet loaded, MaxInitWallets unused
\* wallets in the store and no PUMPPORTAL_API_KEY, so that the bonding-curve
\* channel is the only one; the feed has one signature; the sockets are
\* followed from their creation to their close event.
InitChannels ==
    /\ InitCommon
    /\ now = StartTime
    /\ masterWallet
    /\ Len(fbWallets) = MaxInitWallets
    /\ \A j \in 1..Len(fbWallets) : fbWallets[j].launchCount = 0
    /\ observe = {"channels"}
    /\ reliable = FALSE
    /\ apiKey = FALSE
    /\ launchCooldown = LAUNCH_COOLDOWN
    /\ horizon = StartTime + MaxTicks
    /\ processedTxs = <<>>
    /\ sigPool = {1}
    /\ sigInfo = [s \in sigPool |-> NoSigInfo]
    /\ gateCount = 0
    /\ nextSig = 1

\* A fresh process whose getWalletStats is called as well; no history of the
\* events or the results is followed.
InitStats ==
    /\ InitCommon
    /\ now = StartTime
    /\ observe = {}
    /\ reliable = FALSE
    /\ apiKey = TRUE
    /\ launchCooldown = LAUNCH_COOLDOWN
    /\ horizon = StartTime + MaxTicks
    /\ processedTxs = <<>>
    /\ sigPool = 1..MaxSigs
    /\ sigInfo = [s \in sigPool |-> NoSigInfo]
    /\ gateCount = 0
    /\ nextSig = 1

\* Launches the process has made at the start of SpecHistory
HistFill == RECENT_CAP - 1

\* The wallets those launches used, MAX_LAUNCHES_PER_WALLET launches each
HistWallets == (HistFill + MAX_LAUNCHES_PER_WALLET - 1) \div MAX_LAUNCHES_PER_WALLET

\* Date.now() after them, one cooldown apart
HistoryStart == StartTime + HistFill * LAUNCH_COOLDOWN

\* A process that has been monitoring since its start and has made HistFill
\* launches, all successful and one cooldown apart, for the buys 1..HistFill:
\* every wallet was generated by this process and is in the store, the
\* latest one is at the cursor, and the cooldown of the latest launch has
\* just passed.
InitHistory ==
    /\ now = HistoryStart
    /\ isMonitoring = TRUE
    /\ targetCA = TargetCA
    /\ monitorPc = "running"
    /\ totalLaunches = HistFill
    /\ sessionLaunches = HistFill
    /\ recentLaunches =
          [j \in 1..HistFill |->
              [signature |-> HistFill + 1 - j,
               wallet |-> ((HistFill - j) \div MAX_LAUNCHES_PER_WALLET) + 1,
               success |-> TRUE]]
    /\ lastLaunchTime = HistoryStart - LAUNCH_COOLDOWN
    /\ approvedAt = lastLaunchTime
    /\ processedTxs = [j \in 1..HistFill |-> j]
    /\ testMode = FALSE
    /\ masterWallet = TRUE
    /\ childWallets =
          [j \in 1..HistWallets |->
              Wallet(j, Min(MAX_LAUNCHES_PER_WALLET,
                            HistFill - (j - 1) * MAX_LAUNCHES_PER_WALLET))]
    /\ currentWalletIndex = HistWallets - 1
    /\ isInitialized = TRUE
    /\ fbWallets = childWallets
    /\ fb0 = <<>>
    /\ keys = HistWallets
    /\ fbStats = [totalLaunches |-> totalLaunches, recentLaunches |-> recentLaunches]
    /\ tasks = <<>>
    /\ walletStats = NoStats
    /\ pending = {}
    /\ poller = NoPoller
    /\ txInfo = NoTx
    /\ buyAmount = NotCalled
    /\ statsRun = NoRun
    /\ lastEvent = NoEvent
    /\ lastResult = NoResult
    /\ lastAnswer = NoAnswer
    /\ lastFailed = FALSE
    /\ storeFaults = 0
    /\ observe = {}
    /\ reliable = FALSE
    /\ apiKey = TRUE
    /\ launchCooldown = LAUNCH_COOLDOWN
    /\ horizon = HistoryStart + MaxTicks
    /\ sockets = ConnectWebSockets(NoSockets)
    /\ timers = [c \in Channels |-> <<>>]
    /\ starts = 1
    /\ lastChannel = NoChannelEvent
    /\ regaps = {}
    /\ sigPool = (HistFill + 1)..(HistFill + MaxSigs)
    /\ sigInfo = [s \in sigPool |-> NoSigInfo]
    /\ gateCount = HistFill
    /\ nextSig = HistFill + 1

\* The pipeline of walletManager.js 438-681 after startMonitoring(ca): the
\* subscription is set and pollRecentTransactions awaits its first answer.
\* The stats file is empty, the master wallet is loaded and the store holds
\* MaxInitWallets unused wallets.
InitPipeline ==
    /\ now = StartTime
    /\ isMonitoring = TRUE
    /\ targetCA = TargetCA
    /\ monitorPc = "running"
    /\ totalLaunches = 0
    /\ sessionLaunches = 0
    /\ recentLaunches = <<>>
    /\ lastLaunchTime = 0
    /\ approvedAt = 0
    /\ processedTxs = <<>>
    /\ testMode = FALSE
    /\ masterWallet = TRUE
    /\ childWallets = <<>>
    /\ currentWalletIndex = 0
    /\ isInitialized = FALSE
    /\ fbWallets = [j \in 1..MaxInitWallets |-> Wallet(j, 0)]
    /\ fb0 = fbWallets
    /\ keys = 0
    /\ fbStats = [totalLaunches |-> 0, recentLaunches |-> <<>>]
    /\ tasks = <<>>
    /\ walletStats = NoStats
    /\ pending = {}
    /\ poller = [NoPoller EXCEPT !.pc = "fetch"]
    /\ lastEvent = NoEvent
    /\ lastResult = NoResult
    /\ lastAnswer = NoAnswer
    /\ lastFailed = FALSE
    /\ storeFaults = 0
    /\ observe = {}
    /\ reliable = FALSE
    /\ apiKey = FALSE
    /\ launchCooldown = LAUNCH_COOLDOWN
    /\ horizon = StartTime + MaxTicks
    /\ sockets = NoSockets
    /\ timers = [c \in Channels |-> <<>>]
    /\ starts = 1
    /\ lastChannel = NoChannelEvent
    /\ regaps = {}
    /\ sigPool = 1..MaxSigs
    /\ sigInfo = [s \in sigPool |-> NoSigInfo]
    /\ gateCount = 0
    /\ nextSig = 1

InitPoll ==
    /\ InitPipeline
    /\ statsRun = NoRun
    /\ txInfo = NoTx
    /\ buyAmount = NotCalled

\* The pipeline at a call of getBuyAmount(signature): getTransaction is about
\* to answer one of TxInfos
InitAmount ==
    /\ InitPipeline
    /\ statsRun = NoRun
    /\ txInfo \in TxInfos
    /\ buyAmount = NotCalled

\* Date.now() at the first event of the scenario: more than the default
\* cooldown after the epoch
ScenarioStart == DEFAULT_LAUNCH_COOLDOWN

\* The buys on the target of the scenario: signature, solAmount in hundredths
\* of a SOL, and time in milliseconds after the first
Scenario ==
    <<[signature |-> 1, solAmount |-> 10, t |-> 0],
      [signature |-> 1, solAmount |-> 10, t |-> 1],
      [signature |-> 2, solAmount |-> 20, t |-> 2],
      [signature |-> 3, solAmount |-> 50, t |-> 5000],
      [signature |-> 4, solAmount |-> 16, t |-> 31000]>>

\* Date.now() when the i-th buy of the scenario is handled
ScenarioTime(i) == ScenarioStart + Scenario[i].t

\* A fresh process with the default cooldown, one millisecond before the
\* first buy of the scenario; the history of the trade events is followed.
InitScenario ==
    /\ InitCommon
    /\ now = ScenarioStart - 1
    /\ observe = {"events"}
    /\ reliable = FALSE
    /\ apiKey = TRUE
    /\ launchCooldown = DEFAULT_LAUNCH_COOLDOWN
    /\ horizon = ScenarioTime(Len(Scenario))
    /\ processedTxs = <<>>
    /\ sigPool = {Scenario[i].signature : i \in 1..Len(Scenario)}
    /\ sigInfo = [s \in sigPool |-> NoSigInfo]
    /\ gateCount = 0
    /\ nextSig = 1

\* Launches that use up a loaded pool of MaxInitWallets wallets
PoolLaunches == MaxInitWallets * MAX_LAUNCHES_PER_WALLET

\* A funded master wallet, a store of wallets that never launched, external
\* calls that always succeed, and time and signatures for PoolLaunches + 2
\* launches one after the other.
InitIdeal ==
    /\ InitCommon
    /\ now = StartTime
    /\ masterWallet
    /\ \A j \in 1..Len(fbWallets) : fbWallets[j].launchCount = 0
    /\ observe = {}
    /\ reliable = TRUE
    /\ apiKey = TRUE
    /\ launchCooldown = LAUNCH_COOLDOWN
    /\ horizon = StartTime + LAUNCH_COOLDOWN * (PoolLaunches + 1)
    /\ processedTxs = <<>>
    /\ sigPool = 1..(PoolLaunches + 2)
    /\ sigInfo = [s \in sigPool |-> NoSigInfo]
    /\ gateCount = 0
    /\ nextSig = 1

(***************************************************************************)
(* History variables are followed only in the specifications that read     *)
(* them; elsewhere they keep their initial value.                          *)
(***************************************************************************)
Followed(kind, value, initial) == IF kind \in observe THEN value ELSE initial

\* n more store operations may fail
MayFail(n) == ~reliable /\ storeFaults + n <= MaxStoreFaults

(***************************************************************************)
(* The clock.                                                              *)
(***************************************************************************)
Tick ==
    /\ now < horizon
    /\ now' = now + 1
    /\ lastEvent' = NoEvent
    /\ lastResult' = NoResult
    /\ lastAnswer' = NoAnswer
    /\ lastChannel' = NoChannelEvent
    /\ UNCHANGED <<monitorVars, statsVars, lastLaunchTime, walletVars, gateVars,
                   configVars, fbStats, tasks, lastFailed, approvedAt, keys, storeFaults,
                   channelVars, walletStats, pollVars, amountVars,
                   statsRun>>

(***************************************************************************)
(* monitor.js: startMonitoring and loadStatsFromFirebase.                  *)
(***************************************************************************)
\* startMonitoring(ca) up to the await of getStats
StartMonitoring ==
    /\ ~isMonitoring
    /\ monitorPc # "loading"
    /\ starts < MaxStarts
    /\ starts' = starts + 1
    /\ targetCA' = TargetCA
    /\ isMonitoring' = TRUE
    /\ monitorPc' = "loading"
    /\ statsRun' = [asked |-> fbStats.totalLaunches, successes |-> 0]
    /\ lastEvent' = NoEvent
    /\ lastResult' = NoResult
    /\ lastAnswer' = NoAnswer
    /\ lastChannel' = NoChannelEvent
    /\ UNCHANGED <<now, statsVars, lastLaunchTime, walletVars, gateVars, configVars,
                   fbStats, tasks, lastFailed, approvedAt, keys, storeFaults,
                   sockets, timers, walletStats, pollVars, amountVars>>

\* slice(0, limit) of firebase.js getRecentLaunches
FirstOf(list, limit) == SubSeq(list, 1, Min(Len(list), limit))

\* The answers of getStats and getRecentLaunches (defaults when the read fails),
\* then connectWebSockets.  getStats answers with the stats node as it was at
\* some time between the request and the answer.
StatsLoaded ==
    /\ monitorPc = "loading"
    /\ \E readOk \in BOOLEAN, stats \in {statsRun.asked, fbStats.totalLaunches} :
        /\ ~readOk => MayFail(1) /\ stats = fbStats.totalLaunches
        /\ storeFaults' = IF readOk THEN storeFaults ELSE storeFaults + 1
        /\ totalLaunches' = IF readOk THEN stats ELSE 0
        /\ recentLaunches' = IF readOk
                             THEN FirstOf(fbStats.recentLaunches, RECENT_SHOWN)
                             ELSE <<>>
    /\ monitorPc' = "running"
    /\ sockets' = ConnectWebSockets(sockets)
    /\ lastChannel' = Followed("channels",
                               ChannelEvent("connect",
                                            IF apiKey THEN Channels
                                            ELSE {BondingCurve}, NoCA),
                               NoChannelEvent)
    /\ lastEvent' = NoEvent
    /\ lastResult' = NoResult
    /\ lastAnswer' = NoAnswer
    /\ UNCHANGED <<now, isMonitoring, targetCA, sessionLaunches, lastLaunchTime,
                   walletVars, gateVars, configVars, fbStats, tasks, lastFailed,
                   approvedAt, keys, timers, starts, walletStats, pollVars, amountVars,
                   statsRun>>

(***************************************************************************)
(* monitor.js: the message handler of createWebSocket and                  *)
(* processTradeEvent up to its await of launchAnnoyingCoin, which runs to  *)
(* the first external await of getNextWallet.                              *)
(***************************************************************************)
\* The signature of the trades that are not buys on the target: the next one
\* the feed has not used, or the largest of the feed when all are used
OtherSig ==
    IF nextSig \in sigPool THEN nextSig
    ELSE CHOOSE x \in sigPool : \A y \in sigPool : y <= x

\* The trade messages of a step.  A signature the feed has not used yet is the
\* smallest unused one; a signature still in processedTxs is answered before
\* its amount is read, so one amount stands for all; one message stands for
\* the trades on other mints and one for the sells, both with an amount at
\* the minimum.
Trades ==
    {[mint |-> TargetCA, txType |-> "buy", signature |-> s, solAmount |-> a] :
        s \in {x \in sigPool : x <= nextSig /\ ~HasProcessed(processedTxs, x)},
        a \in Amounts}
    \cup {[mint |-> TargetCA, txType |-> "buy", signature |-> s,
           solAmount |-> Num(MIN_BUY_AMOUNT)] :
             s \in {x \in sigPool : HasProcessed(processedTxs, x)}}
    \cup {[mint |-> OtherCA, txType |-> "buy", signature |-> OtherSig,
           solAmount |-> Num(MIN_BUY_AMOUNT)],
          [mint |-> TargetCA, txType |-> "sell", signature |-> OtherSig,
           solAmount |-> Num(MIN_BUY_AMOUNT)]}

\* A buy on the target at or above the minimum while the cooldown is clear
Eligible(amount, t, last) ==
    /\ IsNumber(amount)
    /\ amount.val >= MIN_BUY_AMOUNT
    /\ t - last >= LAUNCH_COOLDOWN

\* history: what the step did with the trade
Delivered(trade, outcome) ==
    [outcome |-> outcome, mint |-> trade.mint, txType |-> trade.txType,
     signature |-> trade.signature,
     solAmount |-> trade.solAmount, at |-> now, lastBefore |-> lastLaunchTime,
     seen |-> IF trade.signature \in sigPool
              THEN sigInfo[trade.signature].passes > 0 ELSE FALSE,
     failedBefore |-> lastFailed]

\* history: the gate passes and launches of the signature
Passed(info, outcome) ==
    [passes |-> info.passes + 1,
     launches |-> IF outcome = "Approved" THEN info.launches + 1 ELSE info.launches,
     lastPass |-> gateCount + 1]

\* the launches in flight are no longer the one approved last
Older(list) == [k \in 1..Len(list) |-> [list[k] EXCEPT !.latest = FALSE]]

FailedResult(t) == [kind |-> "Failure", signature |-> t.signature, error |-> t.error]

\* processTradeEvent(trade) called at time t, with delta passing between the
\* cooldown test and lastLaunchTime = Date.now()
HandleTrade(trade, t, delta) ==
    LET outcome == Decide(trade, t)
        sig == trade.signature
        task == GetNextWallet(NewTask(trade))
    IN  /\ t + delta <= horizon
        /\ delta = 1 => outcome = "Approved"
        /\ outcome = "Approved" =>
                Len(tasks) < (IF reliable THEN 1 ELSE MaxInFlight)
        /\ lastEvent' = Followed("events",
                                 [Delivered(trade, outcome) EXCEPT !.at = t], NoEvent)
        /\ IF PassedGate(outcome)
           THEN /\ processedTxs' = AddProcessed(processedTxs, sig)
                /\ sigInfo' = [sigInfo EXCEPT ![sig] = Passed(@, outcome)]
                /\ gateCount' = gateCount + 1
                /\ regaps' = IF sigInfo[sig].passes > 0
                             THEN regaps \cup {gateCount - sigInfo[sig].lastPass}
                             ELSE regaps
                /\ nextSig' = IF sig = nextSig THEN nextSig + 1 ELSE nextSig
           ELSE UNCHANGED gateVars
        /\ IF outcome = "Approved"
           THEN /\ now' = t + delta
                /\ lastLaunchTime' = now'
                /\ approvedAt' = now'
                /\ tasks' = IF task.pc = "failed" THEN Older(tasks)
                            ELSE Append(Older(tasks), task)
                /\ lastResult' = IF task.pc = "failed"
                                 THEN Followed("results", FailedResult(task), NoResult)
                                 ELSE NoResult
                /\ lastFailed' = Followed("events", task.pc = "failed", FALSE)
           ELSE /\ now' = t
                /\ lastResult' = NoResult
                /\ UNCHANGED <<lastLaunchTime, tasks, lastFailed, approvedAt>>
        /\ lastAnswer' = NoAnswer
        /\ lastChannel' = NoChannelEvent
        /\ UNCHANGED <<monitorVars, statsVars, walletVars, configVars, fbStats, keys,
                       storeFaults, channelVars, walletStats, pollVars, amountVars,
                   statsRun>>

\* The message handler receives a trade
OnTrade ==
    /\ Receiving
    /\ \E trade \in Trades, delta \in 0..1 : HandleTrade(trade, now, delta)

\* A message that is not a trade (no txType of buy or sell) or does not parse:
\* the handler returns.
OnOtherMessage ==
    /\ Receiving
    /\ \E kind \in {"NotATrade", "ParseError"} :
        lastEvent' = Followed("events", [NoEvent EXCEPT !.outcome = kind], NoEvent)
    /\ lastResult' = NoResult
    /\ lastAnswer' = NoAnswer
    /\ lastChannel' = NoChannelEvent
    /\ UNCHANGED <<now, monitorVars, statsVars, lastLaunchTime, walletVars, gateVars,
                   configVars, fbStats, tasks, lastFailed, approvedAt, keys, storeFaults,
                   channelVars, walletStats, pollVars, amountVars,
                   statsRun>>

\* The buys of the scenario still to come
Remaining == {i \in 1..Len(Scenario) : ScenarioTime(i) > now}

\* The clock reaches the time of the next buy of the scenario and the message
\* handler receives it
ScenarioTrade ==
    /\ Receiving
    /\ Remaining # {}
    /\ LET i == CHOOSE j \in Remaining : \A k \in Remaining : j <= k
           trade == [mint |-> TargetCA, txType |-> "buy",
                     signature |-> Scenario[i].signature,
                     solAmount |-> Num(Scenario[i].solAmount)]
       IN  HandleTrade(trade, ScenarioTime(i), 0)

(***************************************************************************)
(* launcher.js launchAnnoyingCoin and walletManager.js getNextWallet: the  *)
(* resumptions of a launch in flight.  Each action is the turn that        *)
(* receives one external answer and runs to the next external await.       *)
(***************************************************************************)
\* The publicKey of the keypair loadMasterWallet decodes from MASTER_WALLET
MasterKey == 0 - 1

\* A provisioning that hands out the master keypair
FreshKeyOfMaster == MasterKey

\* the publicKey of the keypair generateNewWallet draws next
FreshKey == Len(fb0) + keys + 1

\* What a resumption leaves alone whichever await it resumes
TaskFrame ==
    /\ lastEvent' = NoEvent
    /\ lastChannel' = NoChannelEvent
    /\ UNCHANGED <<now, monitorVars, lastLaunchTime, approvedAt, gateVars, configVars,
                   channelVars, pollVars, amountVars>>

\* The launch returns { success: false }: processTradeEvent ends without a
\* record.  With next = t the launch goes on to its next await instead.
Settle(k, t, next) ==
    IF next.pc = "failed"
    THEN /\ tasks' = Remove(tasks, k)
         /\ lastResult' = Followed("results", FailedResult(next), NoResult)
         /\ lastFailed' = Followed("events", lastFailed \/ t.latest, FALSE)
    ELSE /\ tasks' = [tasks EXCEPT ![k] = next]
         /\ lastResult' = NoResult
         /\ UNCHANGED lastFailed

\* loadWalletsFromFirebase after getWallets answered (an empty list when the
\* read failed), then the loop of getNextWallet
LoadResume(k) ==
    LET t == tasks[k] IN
    /\ t.pc = "load"
    /\ \E readOk \in BOOLEAN :
        LET loaded == IF readOk THEN fbWallets ELSE <<>> IN
        /\ ~readOk => MayFail(1)
        /\ storeFaults' = IF readOk THEN storeFaults ELSE storeFaults + 1
        /\ childWallets' = loaded
        /\ isInitialized' = TRUE
        /\ Settle(k, t, GetNextWalletFrom(t, loaded, currentWalletIndex, 0))
    /\ lastAnswer' = NoAnswer
    /\ walletStats' = Detached(walletStats, childWallets)
    /\ UNCHANGED statsRun
    /\ TaskFrame
    /\ UNCHANGED <<statsVars, currentWalletIndex, fbWallets, fbStats, keys>>

\* connection.getBalance threw
ReadError == -1

\* What connection.getBalance(wallet) answers, in hundredths of a SOL
Balances == {MIN_OPERABLE_BALANCE - 1, MIN_OPERABLE_BALANCE,
             MIN_OPERABLE_BALANCE + 1, ReadError}

\* balance > 0.03 * LAMPORTS_PER_SOL
HasFunds(balance) == balance > MIN_OPERABLE_BALANCE

\* A loop whose catch ends the call
BalanceAnsweredThrows(t, balance) ==
    IF balance = ReadError THEN LaunchFailed(t, "Balance check error")
    ELSE IF HasFunds(balance) THEN [t EXCEPT !.pc = "platform"]
    ELSE GetNextWalletFrom(t, childWallets, currentWalletIndex, t.i + 1)

\* getNextWallet after getBalance answered: the loop breaks with the wallet
\* read, or goes on from the next i (also when the read threw: the catch logs)
BalanceAnswered(t, balance) ==
    IF balance # ReadError /\ HasFunds(balance)
    THEN [t EXCEPT !.pc = "platform"]
    ELSE [GetNextWalletFrom(t, childWallets, currentWalletIndex, t.i + 1)
            EXCEPT !.erred = Followed("results", t.erred \/ balance = ReadError, FALSE)]

\* The turn of getNextWallet that receives the balance of the wallet read
BalanceResume(k) ==
    LET t == tasks[k] IN
    /\ t.pc = "bal"
    /\ \E balance \in Balances :
        LET next == BalanceAnswered(t, balance) IN
        /\ reliable => next.pc = "platform"
        /\ currentWalletIndex' = IF next.pc = "platform" THEN t.idx
                                 ELSE currentWalletIndex
        /\ Settle(k, t, next)
        /\ lastAnswer' = Followed("results",
                                  [call |-> "getBalance", signature |-> t.signature,
                                   wallet |-> t.wallet, value |-> balance,
                                   taken |-> next.pc = "platform"], NoAnswer)
    /\ UNCHANGED statsRun
    /\ TaskFrame
    /\ UNCHANGED <<statsVars, childWallets, isInitialized, fbWallets, fbStats, keys,
                   storeFaults, walletStats>>

\* What connection.getBalance(masterWallet) answers, in hundredths of a SOL
MasterBalances == {MIN_MASTER_BALANCE + SOL_PER_WALLET - 1,
                   MIN_MASTER_BALANCE + SOL_PER_WALLET,
                   MIN_MASTER_BALANCE + SOL_PER_WALLET + 1, ReadError}

\* getMasterBalance: 0 when the read threw
GetMasterBalance(answer) == IF answer = ReadError THEN 0 ELSE answer

\* A check that forgets the funding of the new wallet
MasterTooLowForReserve(masterBalance) == masterBalance < MIN_MASTER_BALANCE

\* masterBalance < MIN_MASTER_BALANCE + SOL_PER_WALLET
MasterTooLow(masterBalance) == masterBalance < MIN_MASTER_BALANCE + SOL_PER_WALLET

\* generateNewWallet after getMasterBalance answered: a balance too low
\* throws, else the keypair is generated and the transfer is sent
MasterBalanceResume(k) ==
    LET t == tasks[k] IN
    /\ t.pc = "mbal"
    /\ \E answer \in MasterBalances :
        LET masterBalance == GetMasterBalance(answer) IN
        /\ reliable => ~MasterTooLow(masterBalance)
        /\ IF MasterTooLow(masterBalance)
           THEN /\ UNCHANGED keys
                /\ Settle(k, t, LaunchFailed(t, "Master wallet too low!"))
           ELSE /\ keys' = keys + 1
                /\ Settle(k, t, [t EXCEPT !.pc = "xfer", !.wallet = FreshKey])
        /\ lastAnswer' = Followed("results",
                                  [call |-> "getMasterBalance",
                                   signature |-> t.signature, wallet |-> 0,
                                   value |-> masterBalance, taken |-> FALSE],
                                  NoAnswer)
    /\ UNCHANGED statsRun
    /\ TaskFrame
    /\ UNCHANGED <<statsVars, walletVars, fbStats, storeFaults, walletStats>>

\* A catch that goes on to saveWallet
TransferAnsweredAnyway(t, confirmed) == [t EXCEPT !.pc = "save"]

\* generateNewWallet after sendAndConfirmTransaction answered: saveWallet is
\* called, or the catch rethrows
TransferAnswered(t, confirmed) ==
    IF confirmed THEN [t EXCEPT !.pc = "save"]
    ELSE LaunchFailed(t, "Transfer failed")

\* The turn of generateNewWallet that receives the answer of the transfer
TransferResume(k) ==
    LET t == tasks[k] IN
    /\ t.pc = "xfer"
    /\ \E confirmed \in BOOLEAN :
        /\ reliable => confirmed
        /\ Settle(k, t, TransferAnswered(t, confirmed))
        /\ lastAnswer' = Followed("results",
                                  [call |-> "transfer", signature |-> t.signature,
                                   wallet |-> t.wallet,
                                   value |-> IF confirmed THEN SOL_PER_WALLET ELSE 0,
                                   taken |-> confirmed], NoAnswer)
    /\ UNCHANGED statsRun
    /\ TaskFrame
    /\ UNCHANGED <<statsVars, walletVars, fbStats, keys, storeFaults, walletStats>>

\* saveWallet answered (its result is not read): childWallets.push(newWallet),
\* then currentWalletIndex = childWallets.length - 1 in getNextWallet
SaveWalletResume(k) ==
    LET t == tasks[k] IN
    /\ t.pc = "save"
    /\ \E saved \in BOOLEAN :
        /\ ~saved => MayFail(1)
        /\ storeFaults' = IF saved THEN storeFaults ELSE storeFaults + 1
        /\ fbWallets' = IF saved THEN Append(fbWallets, Wallet(t.wallet, 0))
                        ELSE fbWallets
    /\ childWallets' = Append(childWallets, Wallet(t.wallet, 0))
    /\ currentWalletIndex' = Len(childWallets)
    /\ tasks' = [tasks EXCEPT ![k] = [t EXCEPT !.pc = "platform"]]
    /\ lastResult' = NoResult
    /\ lastAnswer' = NoAnswer
    /\ UNCHANGED statsRun
    /\ TaskFrame
    /\ UNCHANGED <<statsVars, isInitialized, fbStats, lastFailed, keys, walletStats>>

\* What the calls between the wallet's return and the end of the try block
\* answer: the first of them to fail, or "ok" when sendTransaction returned a
\* signature.  None of them reads or writes the state of the program, so the
\* launch waits for them in one place.
PlatformAnswers ==
    {"ok", "IPFS upload failed", "Trade API failed", "Signing failed",
     "Submission failed"}

\* An increment placed before the submission is known to have succeeded
SubmittedEarly(answer) == answer \in {"ok", "Submission failed"}

\* incrementWalletLaunches(wallet.publicKey), line 178, is reached
Submitted(answer) == answer = "ok"

\* The record launchAnnoyingCoin returns with success true
LaunchRecord(t) == [signature |-> t.signature, wallet |-> t.wallet,
                    success |-> TRUE]

\* The end of a launch: the increment of the wallet's count and its write to
\* the store, then in processTradeEvent the counters, the history, saveLaunch
\* and saveStats.  A store write that fails is logged and changes nothing.
PlatformResume(k) ==
    LET t == tasks[k] IN
    /\ t.pc = "platform"
    /\ \E answer \in PlatformAnswers, updated, launchSaved, statsSaved \in BOOLEAN :
        LET j == FindWallet(childWallets, t.wallet)
            pool == IF Submitted(answer)
                    THEN IncrementWalletLaunches(childWallets, t.wallet)
                    ELSE childWallets
            faults == (IF updated THEN 0 ELSE 1) + (IF launchSaved THEN 0 ELSE 1)
                        + (IF statsSaved THEN 0 ELSE 1)
        IN  /\ childWallets' = pool
            /\ reliable => answer = "ok"
            /\ IF answer = "ok"
               THEN /\ faults > 0 => MayFail(faults)
                    /\ j = 0 => updated
                    /\ storeFaults' = storeFaults + faults
                    /\ fbWallets' = IF updated /\ j # 0
                                    THEN UpdateWalletLaunches(fbWallets, t.wallet,
                                                              pool[j].launchCount)
                                    ELSE fbWallets
                    /\ totalLaunches' = totalLaunches + 1
                    /\ sessionLaunches' = sessionLaunches + 1
                    /\ statsRun' = [statsRun EXCEPT !.successes = @ + 1]
                    /\ recentLaunches' = Unshift(recentLaunches, LaunchRecord(t))
                    /\ fbStats' =
                         [totalLaunches |-> IF statsSaved THEN totalLaunches'
                                            ELSE fbStats.totalLaunches,
                          recentLaunches |->
                              IF launchSaved
                              THEN Unshift(fbStats.recentLaunches, LaunchRecord(t))
                              ELSE fbStats.recentLaunches]
                    /\ tasks' = Remove(tasks, k)
                    /\ lastResult' = Followed("results",
                                              [kind |-> "Success",
                                               signature |-> t.signature,
                                               error |-> ""], NoResult)
                    /\ UNCHANGED lastFailed
               ELSE /\ updated /\ launchSaved /\ statsSaved
                    /\ Settle(k, t, LaunchFailed(t, answer))
                    /\ UNCHANGED <<statsVars, fbWallets, fbStats, storeFaults,
                                   statsRun>>
    /\ lastAnswer' = NoAnswer
    /\ TaskFrame
    /\ UNCHANGED <<currentWalletIndex, isInitialized, keys, walletStats>>

TaskStep ==
    \E k \in InFlight :
        \/ LoadResume(k)
        \/ BalanceResume(k)
        \/ MasterBalanceResume(k)
        \/ TransferResume(k)
        \/ SaveWalletResume(k)
        \/ PlatformResume(k)

Next ==
    \/ Tick
    \/ StartMonitoring
    \/ StatsLoaded
    \/ OnTrade
    \/ OnOtherMessage
    \/ TaskStep

(***************************************************************************)
(* monitor.js: the socket handlers of createWebSocket, the reconnect timer *)
(* and stopMonitoring.                                                     *)
(***************************************************************************)
\* What the channel steps leave alone
ChannelFrame ==
    /\ lastEvent' = NoEvent
    /\ lastResult' = NoResult
    /\ lastAnswer' = NoAnswer
    /\ UNCHANGED <<now, targetCA, monitorPc, statsVars, lastLaunchTime, walletVars,
                   gateVars, configVars, tasks, lastFailed, approvedAt, keys, starts,
                   walletStats, pollVars, amountVars,
                   statsRun>>

\* The bag with one socket of kind s turned into kind t
Moved(bag, s, t) == [[bag EXCEPT ![s] = @ - 1] EXCEPT ![t] = @ + 1]

\* ws.on('open'): the subscription to the trades of targetCA is sent
SocketOpen ==
    /\ \E s \in SocketKinds :
        /\ s.state = "connecting"
        /\ sockets[s] > 0
        /\ sockets' = Moved(sockets, s, [s EXCEPT !.state = "open"])
        /\ lastChannel' = Followed("channels",
                                   ChannelEvent("open", {s.chan}, targetCA),
                                   NoChannelEvent)
    /\ ChannelFrame
    /\ UNCHANGED <<isMonitoring, fbStats, storeFaults, timers>>

\* A close handler that never reconnects
ReconnectNever(monitoring) == FALSE

\* if (isMonitoring) in the close handler
ReconnectWanted(monitoring) == monitoring

\* ws.on('close'): the connection failed, was lost or was closed by close().
\* The socket is gone; the reconnect timer is set while monitoring.  A close
\* that sets a timer comes while the clock leaves time for the timer.
SocketClose ==
    /\ \E s \in SocketKinds :
        /\ sockets[s] > 0
        /\ sockets' = [sockets EXCEPT ![s] = @ - 1]
        /\ IF ReconnectWanted(isMonitoring)
           THEN /\ now + RECONNECT_DELAY <= horizon
                /\ timers' = [timers EXCEPT
                                ![s.chan] = Append(@, now + RECONNECT_DELAY)]
           ELSE UNCHANGED timers
        /\ lastChannel' = Followed("channels",
                                   ChannelEvent("close", {s.chan}, NoCA),
                                   NoChannelEvent)
    /\ ChannelFrame
    /\ UNCHANGED <<isMonitoring, fbStats, storeFaults>>

\* The timer of the close handler fires: reconnectFn, which is
\* connectBondingCurveWS or connectPumpSwapWS
ReconnectTimer ==
    /\ \E c \in Channels :
        /\ timers[c] # <<>>
        /\ now >= Head(timers[c])
        /\ timers' = [timers EXCEPT ![c] = Tail(@)]
        /\ sockets' = IF c = BondingCurve THEN ConnectBondingCurveWS(sockets)
                       ELSE ConnectPumpSwapWS(sockets)
        /\ lastChannel' = Followed("channels",
                                   [ChannelEvent("reconnect", {c}, NoCA) EXCEPT
                                      !.waited = now - Head(timers[c])
                                                   + RECONNECT_DELAY],
                                   NoChannelEvent)
    /\ ChannelFrame
    /\ UNCHANGED <<isMonitoring, fbStats, storeFaults>>

\* close() on the sockets the module variables refer to, which are then null
CloseHeld(bag) ==
    [s \in SocketKinds |->
        IF s.held THEN 0
        ELSE IF s.state # "closing" THEN bag[s]
        ELSE bag[s] + bag[[s EXCEPT !.held = TRUE, !.state = "connecting"]]
                    + bag[[s EXCEPT !.held = TRUE, !.state = "open"]]
                    + bag[[s EXCEPT !.held = TRUE]]]

\* stopMonitoring(), with the write of saveStatsToFirebase, which is logged
\* when it fails
StopMonitoring ==
    /\ isMonitoring' = FALSE
    /\ sockets' = CloseHeld(sockets)
    /\ \E saved \in BOOLEAN :
        /\ ~saved => MayFail(1)
        /\ storeFaults' = IF saved THEN storeFaults ELSE storeFaults + 1
        /\ fbStats' = IF saved THEN [fbStats EXCEPT !.totalLaunches = totalLaunches]
                      ELSE fbStats
    /\ lastChannel' = Followed("channels",
                               ChannelEvent("stop", {}, NoCA), NoChannelEvent)
    /\ ChannelFrame
    /\ UNCHANGED timers

NextChannels ==
    \/ Next
    \/ SocketOpen
    \/ SocketClose
    \/ ReconnectTimer
    \/ StopMonitoring

(***************************************************************************)
(* walletManager.js: getWalletStats, one call at a time.  Each action is   *)
(* the turn that receives one answer and runs to the next await.           *)
(***************************************************************************)
\* The for...of over the array from index i on: the await of the balance of
\* its i-th wallet, or the return of stats
StatsLoop(stats, array, i) ==
    IF i > Len(array) THEN [NoStats EXCEPT !.children = stats.children]
    ELSE [stats EXCEPT !.pc = "child", !.i = i]

\* getWalletStats after the wallets are loaded, to its next await: the balance
\* of the master wallet if one is loaded, else the loop
StatsReads(stats, pool) ==
    IF masterWallet THEN [stats EXCEPT !.pc = "master"]
    ELSE StatsLoop(stats, pool, 1)

\* What the turns of getWalletStats leave alone
StatsFrame ==
    /\ lastEvent' = NoEvent
    /\ lastResult' = NoResult
    /\ lastAnswer' = NoAnswer
    /\ lastChannel' = NoChannelEvent
    /\ UNCHANGED <<now, monitorVars, statsVars, lastLaunchTime, currentWalletIndex,
                   fbWallets, gateVars, configVars, fbStats, tasks, lastFailed,
                   approvedAt, keys, channelVars, pollVars, amountVars,
                   statsRun>>

\* getWalletStats() is called
GetWalletStats ==
    /\ walletStats.pc = "idle"
    /\ walletStats' = IF ~isInitialized THEN [NoStats EXCEPT !.pc = "load"]
                      ELSE StatsReads(NoStats, childWallets)
    /\ StatsFrame
    /\ UNCHANGED <<childWallets, isInitialized, storeFaults>>

\* loadWalletsFromFirebase, called by getWalletStats, after getWallets
\* answered (an empty list when the read failed)
StatsLoadResume ==
    /\ walletStats.pc = "load"
    /\ \E readOk \in BOOLEAN :
        LET loaded == IF readOk THEN fbWallets ELSE <<>> IN
        /\ ~readOk => MayFail(1)
        /\ storeFaults' = IF readOk THEN storeFaults ELSE storeFaults + 1
        /\ childWallets' = loaded
        /\ isInitialized' = TRUE
        /\ walletStats' = StatsReads(walletStats, loaded)
    /\ StatsFrame

\* getBalance(masterWallet.publicKey) answered or threw: stats.master is set
StatsMasterResume ==
    /\ walletStats.pc = "master"
    /\ walletStats' = StatsLoop(walletStats, childWallets, 1)
    /\ StatsFrame
    /\ UNCHANGED <<childWallets, isInitialized, storeFaults>>

\* The entry stats.children receives for a wallet, without its balance: both
\* the try and the catch read wallet.launchCount
StatsChild(wallet) == [publicKey |-> wallet.publicKey,
                       launchCount |-> wallet.launchCount]

\* getBalance of the i-th wallet answered or threw: its entry is pushed
StatsChildResume ==
    /\ walletStats.pc = "child"
    /\ LET array == IF walletStats.detached THEN walletStats.list ELSE childWallets
           pushed == [walletStats EXCEPT
                        !.children = Append(@, StatsChild(array[walletStats.i]))]
       IN  walletStats' = StatsLoop(pushed, array, walletStats.i + 1)
    /\ StatsFrame
    /\ UNCHANGED <<childWallets, isInitialized, storeFaults>>

NextStats ==
    \/ Next
    \/ GetWalletStats
    \/ StatsLoadResume
    \/ StatsMasterResume
    \/ StatsChildResume

(***************************************************************************)
(* walletManager.js 438-681: processTransaction, the onLogs callback and   *)
(* pollRecentTransactions.  launchAnnoyingCoin is the one of launcher.js;  *)
(* the lines after its return (580-590) are those of processTradeEvent     *)
(* with the stats file in the place of the store.                          *)
(***************************************************************************)
\* processTransaction(signature) from its entry to its return or to its await
\* of getBuyAmount, on the set and the feed's next signature
ProcessTransaction(signature, set, next) ==
    IF HasProcessed(set, signature)
    THEN [outcome |-> "DuplicateSkip", set |-> set, next |-> next]
    ELSE [outcome |-> IF CooldownActive(now) THEN "CooldownSkip" ELSE "Awaiting",
          set |-> AddProcessed(set, signature),
          next |-> IF signature = next THEN next + 1 ELSE next]

\* The for...of of pollRecentTransactions over the signatures left: each call
\* of processTransaction that returns at once is followed by the next one; the
\* loop waits at the first call that awaits getBuyAmount, and sets the timer
\* when no signature is left
RECURSIVE PollLoop(_, _, _)
PollLoop(queue, set, next) ==
    IF queue = <<>>
    THEN [pc |-> "sleep", current |-> NoSignature, queue |-> <<>>, set |-> set,
          next |-> next]
    ELSE IF HasProcessed(set, Head(queue)) THEN PollLoop(Tail(queue), set, next)
    ELSE LET r == ProcessTransaction(Head(queue), set, next)
         IN  IF r.outcome = "Awaiting"
             THEN [pc |-> "item", current |-> Head(queue), queue |-> Tail(queue),
                   set |-> r.set, next |-> r.next]
             ELSE PollLoop(Tail(queue), r.set, r.next)

\* The signatures the chain has for the address
Known == {x \in sigPool : x <= nextSig}

\* What getSignaturesForAddress answers: at most POLL_LIMIT signatures; the
\* empty answer also stands for the call that threw
PollAnswers ==
    {q \in UNION {[1..n -> Known] : n \in 0..Min(MaxPolled, POLL_LIMIT)} :
        \A i \in 1..Len(q) : \A j \in 1..Len(q) : i # j => q[i] # q[j]}

\* What the turns of the pipeline leave alone; the history of the gate passes
\* is not followed
PollFrame ==
    /\ lastEvent' = NoEvent
    /\ lastAnswer' = NoAnswer
    /\ lastChannel' = NoChannelEvent
    /\ UNCHANGED <<now, monitorVars, statsVars, walletVars, configVars, fbStats, keys,
                   storeFaults, channelVars, walletStats, lastFailed, gateCount,
                   regaps, amountVars,
                   statsRun>>

\* The poller after the loop went on from queue
Polling(r) ==
    [pc |-> r.pc, current |-> r.current, queue |-> r.queue,
     due |-> IF r.pc = "sleep" THEN now + POLL_INTERVAL ELSE 0]

\* The onLogs callback: nothing for a transaction that failed, else
\* processTransaction(logs.signature)
OnLogs ==
    /\ isMonitoring
    /\ \E signature \in Known, err \in BOOLEAN :
        LET r == IF err THEN [outcome |-> "Failed", set |-> processedTxs,
                              next |-> nextSig]
                 ELSE ProcessTransaction(signature, processedTxs, nextSig)
        IN  /\ processedTxs' = r.set
            /\ nextSig' = r.next
            /\ pending' = IF r.outcome = "Awaiting" THEN pending \cup {signature}
                          ELSE pending
    /\ lastResult' = NoResult
    /\ PollFrame
    /\ UNCHANGED <<lastLaunchTime, approvedAt, tasks, sigInfo, poller>>

\* getSignaturesForAddress answered: the loop over the answer
PollAnswered ==
    /\ poller.pc = "fetch"
    /\ \E answer \in PollAnswers :
        LET r == PollLoop(answer, processedTxs, nextSig)
        IN  /\ processedTxs' = r.set
            /\ nextSig' = r.next
            /\ pending' = IF r.pc = "item" THEN pending \cup {r.current} ELSE pending
            /\ poller' = Polling(r)
    /\ lastResult' = NoResult
    /\ PollFrame
    /\ UNCHANGED <<lastLaunchTime, approvedAt, tasks, sigInfo>>

\* The processTransaction the loop awaits has returned: the loop goes on
PollContinue ==
    /\ poller.pc = "item"
    /\ poller.current \notin pending
    /\ \A k \in InFlight : tasks[k].signature # poller.current
    /\ LET r == PollLoop(poller.queue, processedTxs, nextSig)
       IN  /\ processedTxs' = r.set
           /\ nextSig' = r.next
           /\ pending' = IF r.pc = "item" THEN pending \cup {r.current} ELSE pending
           /\ poller' = Polling(r)
    /\ lastResult' = NoResult
    /\ PollFrame
    /\ UNCHANGED <<lastLaunchTime, approvedAt, tasks, sigInfo>>

\* The timer of pollRecentTransactions fires: the next poll while monitoring
PollTimer ==
    /\ poller.pc = "sleep"
    /\ now >= poller.due
    /\ poller' = IF isMonitoring THEN [NoPoller EXCEPT !.pc = "fetch"] ELSE NoPoller
    /\ lastResult' = NoResult
    /\ PollFrame
    /\ UNCHANGED <<lastLaunchTime, approvedAt, tasks, sigInfo, processedTxs, nextSig,
                   pending>>

\* What getBuyAmount answers, in hundredths of a SOL: null when the
\* transaction cannot be read
BuyAmounts == {Null, Num(MIN_BUY_AMOUNT - 1), Num(MIN_BUY_AMOUNT)}

\* processTransaction after getBuyAmount answered: it returns for null and
\* for an amount below the minimum, else lastLaunchTime = Date.now() and
\* launchAnnoyingCoin runs to its first await
BuyAmountResume ==
    /\ \E signature \in pending, amount \in BuyAmounts :
        LET task == GetNextWallet(NewTask([signature |-> signature]))
        IN  /\ pending' = pending \ {signature}
            /\ IF amount = Null \/ amount.val < MIN_BUY_AMOUNT
               THEN /\ lastResult' = NoResult
                    /\ UNCHANGED <<lastLaunchTime, approvedAt, tasks, sigInfo>>
               ELSE /\ Len(tasks) < MaxInFlight
                    /\ lastLaunchTime' = now
                    /\ approvedAt' = now
                    /\ sigInfo' = [sigInfo EXCEPT ![signature].launches = @ + 1]
                    /\ tasks' = IF task.pc = "failed" THEN Older(tasks)
                                ELSE Append(Older(tasks), task)
                    /\ lastResult' = IF task.pc = "failed"
                                     THEN Followed("results", FailedResult(task),
                                                   NoResult)
                                     ELSE NoResult
    /\ PollFrame
    /\ UNCHANGED <<processedTxs, nextSig, poller>>

\* getBuyAmount(signature) from its call to its return
GetBuyAmountCall ==
    /\ buyAmount = NotCalled
    /\ buyAmount' = GetBuyAmount(txInfo)
    /\ UNCHANGED <<now, monitorVars, statsVars, lastLaunchTime, walletVars, gateVars,
                   configVars, channelVars, pollVars, fbStats, tasks, lastEvent,
                   lastResult, lastAnswer, lastFailed, approvedAt, keys, storeFaults,
                   lastChannel, walletStats, txInfo, statsRun>>

NextAmount == GetBuyAmountCall

NextPoll ==
    \/ Tick
    \/ OnLogs
    \/ PollAnswered
    \/ PollContinue
    \/ PollTimer
    \/ BuyAmountResume
    \/ TaskStep

\* The steps of a process that goes on monitoring
NextRunning ==
    \/ Tick
    \/ OnTrade
    \/ OnOtherMessage
    \/ TaskStep

\* The scenario: its buys in their order, and the launches they start
NextScenario ==
    \/ StartMonitoring
    \/ StatsLoaded
    \/ ScenarioTrade
    \/ TaskStep

Spec == Init /\ [][Next]_vars

SpecScenario == InitScenario /\ [][NextScenario]_vars

\* Time passes and a timer that is due fires.
SpecChannels ==
    InitChannels /\ [][NextChannels]_vars /\ WF_vars(Tick) /\ WF_vars(ReconnectTimer)

SpecTrim == InitTrim /\ [][Next]_vars

SpecPool == InitPool /\ [][Next]_vars

SpecIdeal == InitIdeal /\ [][Next]_vars

SpecFeed == InitFeed /\ [][Next]_vars

SpecStats == InitStats /\ [][NextStats]_vars

SpecHistory == InitHistory /\ [][NextRunning]_vars

SpecPoll == InitPoll /\ [][NextPoll]_vars

SpecAmount == InitAmount /\ [][NextAmount]_vars

SpecTest == InitTest /\ [][Next]_vars

(***************************************************************************)
(* Properties.                                                             *)
(***************************************************************************)
\* The latest step handled a buy on the target
TargetBuy == lastEvent.outcome \in {"DuplicateSkip", "BelowThreshold", "Threw",
                                    "TestSkip", "CooldownSkip", "Approved"}

\* The latest step handled a buy on the target whose signature had not gone
\* through the dedupe gate before
FreshBuy == TargetBuy /\ ~lastEvent.seen

\* launchCount of the wallet publicKey in pool, 0 if it is not there
CountOf(pool, publicKey) ==
    IF FindWallet(pool, publicKey) = 0 THEN 0
    ELSE pool[FindWallet(pool, publicKey)].launchCount

\* C1: a signature delivered again is answered DuplicateSkip, also when its
\* amount is at or above the minimum and the cooldown is clear, so that
\* launchAnnoyingCoin is invoked at most once per signature, and exactly once
\* for a signature whose first delivery is eligible; the step that tests the
\* membership also inserts the signature.
C1_OneLaunchPerSignature ==
    /\ \A s \in sigPool : sigInfo[s].launches <= 1
    /\ TargetBuy /\ lastEvent.seen => lastEvent.outcome = "DuplicateSkip"
    /\ TargetBuy => HasProcessed(processedTxs, lastEvent.signature)
    /\ FreshBuy /\ Eligible(lastEvent.solAmount, lastEvent.at, lastEvent.lastBefore)
         => /\ lastEvent.outcome = "Approved"
            /\ sigInfo[lastEvent.signature].launches = 1

\* C1: the second delivery of a launched signature, eligible in amount and
\* arriving when the cooldown is clear, was skipped as a duplicate
C1_Witness ==
    /\ lastEvent.outcome = "DuplicateSkip"
    /\ sigInfo[lastEvent.signature].launches = 1
    /\ Eligible(lastEvent.solAmount, lastEvent.at, lastEvent.lastBefore)

\* C2 as stated: each signature passes the dedupe gate at most once, whatever
\* the length of the run, also after the trim.
C2_PassesGateOnce ==
    \A s \in sigPool : sigInfo[s].passes <= 1

\* C2: a signature passes the dedupe gate again only after at least
\* PROCESSED_KEEP other signatures were inserted after it; a signature among
\* the latest PROCESSED_KEEP inserts is still in the set.
C2_PassesOncePerWindow ==
    /\ \A gap \in regaps : gap >= PROCESSED_KEEP
    /\ \A s \in sigPool :
          sigInfo[s].passes > 0 /\ gateCount - sigInfo[s].lastPass < PROCESSED_KEEP
            => HasProcessed(processedTxs, s)

\* C2: a signature dropped by the trim was delivered again, passed the gate a
\* second time and was launched
C2_Witness ==
    \E s \in sigPool :
        /\ sigInfo[s].passes = 2
        /\ sigInfo[s].launches = 1
        /\ Len(processedTxs) <= PROCESSED_KEEP + MaxSigs

\* C3: an approval comes at least LAUNCH_COOLDOWN after the approval before
\* it; a new buy at or above the minimum is skipped while less than
\* LAUNCH_COOLDOWN has passed since the latest approval and approved
\* otherwise.
C3_CooldownBetweenApprovals ==
    /\ lastEvent.outcome = "Approved"
         => lastEvent.at - lastEvent.lastBefore >= LAUNCH_COOLDOWN
    /\ FreshBuy /\ IsNumber(lastEvent.solAmount)
                /\ lastEvent.solAmount.val >= MIN_BUY_AMOUNT
         => IF lastEvent.at - lastEvent.lastBefore < LAUNCH_COOLDOWN
            THEN lastEvent.outcome = "CooldownSkip"
            ELSE lastEvent.outcome = "Approved"

\* C3: a second approval, LAUNCH_COOLDOWN + 1 after the first
C3_Witness ==
    /\ lastEvent.outcome = "Approved"
    /\ lastEvent.lastBefore > 0
    /\ lastEvent.at - lastEvent.lastBefore = LAUNCH_COOLDOWN + 1

\* C4 as stated: at most one launchAnnoyingCoin is in flight.
C4_OneLaunchInFlight == Len(tasks) <= 1

\* C5: a new buy of exactly MIN_BUY_AMOUNT is approved when the cooldown is
\* clear, an approved buy is a number at or above MIN_BUY_AMOUNT, and a buy
\* below it is never approved.
C5_InclusiveThreshold ==
    /\ FreshBuy /\ lastEvent.solAmount = Num(MIN_BUY_AMOUNT)
                /\ lastEvent.at - lastEvent.lastBefore >= LAUNCH_COOLDOWN
         => lastEvent.outcome = "Approved"
    /\ lastEvent.outcome = "Approved"
         => IsNumber(lastEvent.solAmount) /\ lastEvent.solAmount.val >= MIN_BUY_AMOUNT
    /\ FreshBuy /\ IsNumber(lastEvent.solAmount)
                /\ lastEvent.solAmount.val < MIN_BUY_AMOUNT
         => lastEvent.outcome = "BelowThreshold" /\ lastLaunchTime = lastEvent.lastBefore

\* C5: a buy of exactly the minimum was approved
C5_Witness ==
    /\ lastEvent.outcome = "Approved"
    /\ lastEvent.solAmount = Num(MIN_BUY_AMOUNT)
    /\ Len(tasks) > 0

\* C6: lastLaunchTime is the time of the latest approval, set in the step that
\* approves, whatever the launches returned since; after the launch approved
\* last has failed, a new buy at or above the minimum that comes less than
\* LAUNCH_COOLDOWN after that approval is skipped.
C6_CooldownFromApproval ==
    /\ lastLaunchTime = approvedAt
    /\ lastEvent.outcome = "Approved" => lastLaunchTime >= lastEvent.at
    /\ lastEvent.failedBefore /\ FreshBuy /\ IsNumber(lastEvent.solAmount)
                               /\ lastEvent.solAmount.val >= MIN_BUY_AMOUNT
                               /\ lastEvent.at - lastEvent.lastBefore < LAUNCH_COOLDOWN
         => lastEvent.outcome = "CooldownSkip" /\ lastLaunchTime = lastEvent.lastBefore

\* C6: the launch approved last has failed and a new eligible buy inside its
\* cooldown window was skipped
C6_Witness ==
    /\ lastEvent.failedBefore
    /\ approvedAt > 0
    /\ lastEvent.lastBefore = approvedAt
    /\ lastEvent.outcome = "CooldownSkip"
    /\ ~lastEvent.seen
    /\ lastEvent.solAmount.val >= MIN_BUY_AMOUNT
    /\ tasks = <<>>

C8_FailureKeepsCounts ==
    [][lastResult'.kind = "Failure"
        => /\ \A j \in 1..Len(childWallets') :
                 childWallets'[j].launchCount
                    <= IF FindWallet(childWallets, childWallets'[j].publicKey) # 0
                       THEN CountOf(childWallets, childWallets'[j].publicKey)
                       ELSE CountOf(fbWallets, childWallets'[j].publicKey)
           /\ fbWallets' = fbWallets]_vars

\* C8: a launch failed at the submission with its wallet in the pool
C8_Witness ==
    /\ lastResult.kind = "Failure"
    /\ lastResult.error = "Submission failed"
    /\ Len(childWallets) > 0
    /\ \A j \in 1..Len(childWallets) : childWallets[j].launchCount = 0

\* C9 as stated: every wallet of the pool has launchCount at most
\* MAX_LAUNCHES_PER_WALLET.
C9_CountWithinLimit ==
    \A j \in 1..Len(childWallets) :
        childWallets[j].launchCount <= MAX_LAUNCHES_PER_WALLET

\* launchCount of the j-th wallet after n launches that drain the pool in order
Drained(n, j) ==
    IF n >= j * MAX_LAUNCHES_PER_WALLET THEN MAX_LAUNCHES_PER_WALLET
    ELSE IF n <= (j - 1) * MAX_LAUNCHES_PER_WALLET THEN 0
    ELSE n - (j - 1) * MAX_LAUNCHES_PER_WALLET

\* C10: with every external call succeeding and launches one after the other,
\* a pool loaded with N unused wallets is drained in order; after
\* N * MAX_LAUNCHES_PER_WALLET launches every wallet is at the limit, and a
\* launch in flight from then on is generating wallet N + 1 or using it.
C10_DrainThenProvision ==
    isInitialized =>
        /\ Len(childWallets) >= Len(fb0)
        /\ \A j \in 1..Len(childWallets) :
              /\ childWallets[j].publicKey = j
              /\ childWallets[j].launchCount = Drained(sessionLaunches, j)
        /\ \A k \in InFlight :
              /\ tasks[k].pc \in {"bal", "platform"}
                    => CountOf(childWallets, tasks[k].wallet) < MAX_LAUNCHES_PER_WALLET
              /\ tasks[k].pc \in {"mbal", "xfer", "save"}
                    => \A j \in 1..Len(childWallets) :
                          childWallets[j].launchCount = MAX_LAUNCHES_PER_WALLET
              /\ sessionLaunches = Len(fb0) * MAX_LAUNCHES_PER_WALLET
                    => \/ tasks[k].pc \in {"mbal", "xfer", "save"}
                       \/ /\ tasks[k].pc = "platform"
                          /\ tasks[k].wallet = Len(fb0) + 1

\* C10: a loaded pool of at least one wallet was used up and the next launch
\* runs with the wallet provisioned after it
C10_Witness ==
    /\ Len(fb0) >= 1
    /\ sessionLaunches = Len(fb0) * MAX_LAUNCHES_PER_WALLET
    /\ Len(childWallets) = Len(fb0) + 1
    /\ \A j \in 1..Len(fb0) : childWallets[j].launchCount = MAX_LAUNCHES_PER_WALLET
    /\ \E k \in InFlight : tasks[k].pc = "platform" /\ tasks[k].wallet = Len(fb0) + 1


\* C11 (as stated): a wallet that getNextWallet reads with launches left and
\* a balance at or above the minimum operable balance, the minimum itself
\* included, is the wallet the call returns.
C11_MinimumBalanceEligible ==
    (lastAnswer.call = "getBalance" /\ lastAnswer.value >= MIN_OPERABLE_BALANCE)
        => lastAnswer.taken

\* The launches in flight that wait for the funding transfer
Funding(list) == {k \in 1..Len(list) : list[k].pc = "xfer"}

\* C12: a step that reads a master balance below MIN_MASTER_BALANCE +
\* SOL_PER_WALLET (0 when the read failed) starts no transfer and generates no
\* keypair; the launch returns the failure "Master wallet too low!", and the
\* pool, the stored wallets and every launchCount are as before.
C12_NoTransferWhenMasterLow ==
    [][(/\ lastAnswer'.call = "getMasterBalance"
        /\ lastAnswer'.value < MIN_MASTER_BALANCE + SOL_PER_WALLET)
       => /\ lastResult'.kind = "Failure"
          /\ lastResult'.signature = lastAnswer'.signature
          /\ lastResult'.error = "Master wallet too low!"
          /\ Len(tasks') = Len(tasks) - 1
          /\ Cardinality(Funding(tasks')) = Cardinality(Funding(tasks))
          /\ keys' = keys
          /\ childWallets' = childWallets
          /\ fbWallets' = fbWallets]_vars

C12_Witness ==
    /\ lastAnswer.call = "getMasterBalance"
    /\ lastAnswer.value = MIN_MASTER_BALANCE + SOL_PER_WALLET - 1
    /\ lastResult.kind = "Failure"
    /\ lastResult.error = "Master wallet too low!"

\* C13: a step in which the funding transfer fails ends the launch with a
\* failure record carrying the transfer's error; the pool, the stored wallets
\* and the cursor are as before.
C13_TransferFailureAddsNoWallet ==
    [][(lastAnswer'.call = "transfer" /\ ~lastAnswer'.taken)
       => /\ lastResult'.kind = "Failure"
          /\ lastResult'.signature = lastAnswer'.signature
          /\ lastResult'.error = "Transfer failed"
          /\ Len(tasks') = Len(tasks) - 1
          /\ childWallets' = childWallets
          /\ fbWallets' = fbWallets
          /\ currentWalletIndex' = currentWalletIndex]_vars

C13_Witness ==
    /\ lastAnswer.call = "transfer"
    /\ ~lastAnswer.taken
    /\ lastResult.kind = "Failure"
    /\ lastResult.error = "Transfer failed"
    /\ \A j \in 1..Len(childWallets) : childWallets[j].publicKey # lastAnswer.wallet

\* The launch in flight for the signature, 0 if none
TaskOf(list, signature) ==
    IF \E k \in 1..Len(list) : list[k].signature = signature
    THEN CHOOSE k \in 1..Len(list) : list[k].signature = signature
    ELSE 0

\* C14: a step in which the balance read of a candidate throws does not end
\* the call with that error: the pool and the cursor are as before, and the
\* call goes on with the next candidate that has launches left (it waits for
\* that wallet's balance) or, when there is none, with the provisioning of a
\* new wallet.
C14_ReadFailureSkipsCandidate ==
    [][(lastAnswer'.call = "getBalance" /\ lastAnswer'.value = ReadError)
       => LET k == TaskOf(tasks, lastAnswer'.signature)
              rest == ScanFrom(childWallets, currentWalletIndex, tasks[k].i + 1)
          IN  /\ k # 0
              /\ childWallets' = childWallets
              /\ currentWalletIndex' = currentWalletIndex
              /\ lastResult'.kind = "Failure"
                    => lastResult'.error = "Master wallet not loaded!"
              /\ rest.found
                    => /\ Len(tasks') = Len(tasks)
                       /\ tasks'[k].pc = "bal"
                       /\ tasks'[k].i = rest.i
                       /\ tasks'[k].i > tasks[k].i
              /\ (~rest.found /\ masterWallet)
                    => /\ Len(tasks') = Len(tasks)
                       /\ tasks'[k].pc = "mbal"]_vars

\* A wallet is returned by a call in which an earlier balance read threw.
C14_Witness ==
    /\ lastAnswer.call = "getBalance"
    /\ lastAnswer.taken
    /\ LET k == TaskOf(tasks, lastAnswer.signature)
       IN  /\ k # 0
           /\ tasks[k].erred
           /\ tasks[k].pc = "platform"
           /\ tasks[k].i > 0

\* getStatus().recentLaunches: recentLaunches.slice(0, 20)
GetStatusRecent == FirstOf(recentLaunches, RECENT_SHOWN)

\* C15 (as stated): once a launch has returned a failure record, the history
\* that getStatus returns holds a record of it with success false.
C15_FailureInHistory ==
    lastResult.kind = "Failure"
        => \E j \in 1..Len(GetStatusRecent) :
              /\ GetStatusRecent[j].signature = lastResult.signature
              /\ ~GetStatusRecent[j].success

\* C16: no launch leaves launchAnnoyingCoin by an exception: a launch in
\* flight waits at one of its awaits, and a failure ends it with a record.
\* After a failed launch the monitor is still running, and the next new buy
\* on the target at or above the minimum with the cooldown clear is approved.
C16_FailureStaysInsideLaunch ==
    /\ \A k \in InFlight : tasks[k].pc \in AwaitPoints
    /\ lastFailed => (isMonitoring /\ monitorPc = "running")
    /\ (/\ lastEvent.failedBefore
        /\ FreshBuy
        /\ Eligible(lastEvent.solAmount, lastEvent.at, lastEvent.lastBefore))
            => lastEvent.outcome = "Approved"

\* A buy is approved, and its launch is in flight, after an earlier launch failed.
C16_Witness ==
    /\ lastEvent.failedBefore
    /\ lastEvent.outcome = "Approved"
    /\ TaskOf(tasks, lastEvent.signature) # 0
    /\ sigInfo[lastEvent.signature].launches = 1

\* The latest step handled a message that does not parse, is not a trade, is
\* a sell or a trade on another mint, or is a buy on the target without its
\* signature or its amount.
Malformed ==
    \/ lastEvent.outcome \in {"ParseError", "NotATrade", "Ignored"}
    \/ /\ TargetBuy
       /\ \/ lastEvent.signature = NoSignature
          \/ lastEvent.solAmount = Undefined

\* C17 (as stated): a malformed or non-matching message starts no launch,
\* leaves lastLaunchTime as it was, and no error leaves its handling.
C17_MalformedIgnored ==
    Malformed => /\ lastEvent.outcome \notin {"Approved", "Threw"}
                 /\ lastLaunchTime = lastEvent.lastBefore

\* The latest step was the close event of a socket of channel c, handled
\* while isMonitoring was true
ClosedWhileMonitoring(c) ==
    /\ lastChannel.event = "close"
    /\ c \in lastChannel.chans
    /\ lastChannel.monitoring

\* The latest step was a reconnect timer creating a new socket for channel c
Reconnecting(c) ==
    /\ lastChannel.event = "reconnect"
    /\ c \in lastChannel.chans

\* C18: every close event handled while monitoring is followed by a new
\* connection attempt on the same channel, made by a timer no sooner than
\* RECONNECT_DELAY after the close; every open sends the subscription with
\* the target address; a close event leaves isMonitoring as it was.
C18_CloseThenReconnect ==
    /\ \A c \in Channels : ClosedWhileMonitoring(c) ~> Reconnecting(c)
    /\ [](lastChannel.event = "reconnect" => lastChannel.waited >= RECONNECT_DELAY)
    /\ [](lastChannel.event = "open"
            => (lastChannel.keys = targetCA /\ targetCA = TargetCA))
    /\ [][lastChannel'.event = "close" => isMonitoring' = isMonitoring]_vars

\* While monitoring, a reconnect timer has fired RECONNECT_DELAY after the
\* close event and has created the new socket of the channel.
C18_Witness ==
    /\ lastChannel.event = "reconnect"
    /\ lastChannel.chans = {BondingCurve}
    /\ lastChannel.monitoring
    /\ lastChannel.waited = RECONNECT_DELAY
    /\ timers[BondingCurve] = <<>>
    /\ sockets[[chan |-> BondingCurve, state |-> "connecting", held |-> TRUE]] = 1

\* C19 (as stated): a launch in flight eventually returns its record, also
\* when an external call it waits for never answers while time passes.
C19_EveryLaunchReturns == (tasks # <<>>) ~> (tasks = <<>>)

\* The outcome the scenario expects for its i-th buy
Expected(i) ==
    <<"BelowThreshold", "DuplicateSkip", "Approved", "CooldownSkip", "Approved">>[i]

\* C20: with MIN_BUY_AMOUNT 0.15 and LAUNCH_COOLDOWN 30000 the five buys of
\* the scenario end as BelowThreshold, DuplicateSkip, Approved, CooldownSkip
\* and Approved: launches are invoked for the third (tx2) and the fifth (tx4)
\* and for no other.
C20_ScenarioLaunchesTwice ==
    /\ \A i \in 1..Len(Scenario) :
          (lastEvent.outcome # "None" /\ lastEvent.at = ScenarioTime(i))
              => /\ lastEvent.signature = Scenario[i].signature
                 /\ lastEvent.outcome = Expected(i)
    /\ sigInfo[1].launches = 0
    /\ sigInfo[3].launches = 0
    /\ sigInfo[2].launches = IF now >= ScenarioTime(3) THEN 1 ELSE 0
    /\ sigInfo[4].launches = IF now >= ScenarioTime(5) THEN 1 ELSE 0

\* The fifth buy has been approved after the third was.
C20_Witness ==
    /\ now = ScenarioTime(5)
    /\ lastEvent.signature = 4
    /\ lastEvent.outcome = "Approved"
    /\ lastEvent.lastBefore = ScenarioTime(3)
    /\ sigInfo[2].launches = 1
    /\ sigInfo[4].launches = 1
    /\ Len(processedTxs) = 4

\* The publicKeys of the child wallets: those of the store at the start and
\* those generateNewWallet has drawn
ChildKeys == 1..(Len(fb0) + keys)

\* C21: the wallet getNextWallet returns to a launch, which pays and signs the
\* creation, is a child wallet (loaded from the store or generated and funded
\* by generateNewWallet) and never the master wallet; the master wallet is
\* neither in the pool nor in the store nor in a launch record.
C21_LaunchWalletIsChild ==
    /\ \A k \in InFlight :
          tasks[k].pc \in {"xfer", "save", "platform"} =>
             /\ tasks[k].wallet \in ChildKeys
             /\ tasks[k].wallet # MasterKey
    /\ \A j \in 1..Len(childWallets) :
          childWallets[j].publicKey \in ChildKeys \ {MasterKey}
    /\ \A j \in 1..Len(fbWallets) :
          fbWallets[j].publicKey \in ChildKeys \ {MasterKey}
    /\ \A j \in 1..Len(recentLaunches) :
          recentLaunches[j].wallet \in ChildKeys \ {MasterKey}

\* A launch holds a wallet generateNewWallet funded from the loaded master
\* wallet, and a record names a wallet
C21_Witness ==
    /\ masterWallet
    /\ recentLaunches # <<>>
    /\ \E k \in InFlight :
          /\ tasks[k].pc = "platform"
          /\ tasks[k].wallet > Len(fb0)

\* C22: every wallet of the pool is in the store with the launchCount the
\* pool holds for it, so that a restart loads it again, and a launch uses no
\* wallet that the store does not hold.
C22_PoolIsPersisted ==
    /\ \A j \in 1..Len(childWallets) :
          \E i \in 1..Len(fbWallets) : fbWallets[i] = childWallets[j]
    /\ \A k \in InFlight :
          tasks[k].pc = "platform" => FindWallet(fbWallets, tasks[k].wallet) # 0

\* C23: a wallet of the in-memory pool is in the pool after every step, also
\* when the loads of getWalletStats and getNextWallet overlap with each other
\* or with the provisioning of a wallet.
C23_WalletStaysInPool ==
    [][\A j \in 1..Len(childWallets) :
          FindWallet(childWallets', childWallets[j].publicKey) # 0]_vars

\* The step is a turn of getWalletStats
StatsTurn ==
    \/ walletStats'.pc # walletStats.pc
    \/ walletStats'.i # walletStats.i

\* C24: a turn of getWalletStats leaves currentWalletIndex and the launchCount
\* of every wallet that is in the pool before and after it as they were, and
\* the entry it pushes for a wallet of the pool carries the launchCount the
\* pool holds for that wallet.
C24_StatsReadOnly ==
    [][StatsTurn =>
          /\ currentWalletIndex' = currentWalletIndex
          /\ \A j \in 1..Len(childWallets) :
                FindWallet(childWallets', childWallets[j].publicKey) # 0 =>
                    CountOf(childWallets', childWallets[j].publicKey)
                        = childWallets[j].launchCount
          /\ Len(walletStats'.children) > Len(walletStats.children) =>
                LET entry == walletStats'.children[Len(walletStats'.children)]
                IN  FindWallet(childWallets, entry.publicKey) # 0 =>
                      entry.launchCount = CountOf(childWallets, entry.publicKey)]_vars

\* C25: getStatus returns at most RECENT_SHOWN records, the first ones of the
\* history; the history never holds more than RECENT_CAP records; a record
\* is added at the front, the records before it move back by one, and the
\* record at place RECENT_CAP, the oldest, is dropped.
C25_HistoryBounded ==
    /\ [](/\ Len(recentLaunches) <= RECENT_CAP
          /\ Len(GetStatusRecent) <= RECENT_SHOWN
          /\ \A j \in 1..Len(GetStatusRecent) :
                GetStatusRecent[j] = recentLaunches[j])
    /\ [][totalLaunches' = totalLaunches + 1 =>
            /\ \E k \in InFlight :
                  /\ tasks[k].pc = "platform"
                  /\ recentLaunches'[1] = LaunchRecord(tasks[k])
            /\ GetStatusRecent'[1] = recentLaunches'[1]
            /\ Len(recentLaunches') = Min(Len(recentLaunches) + 1, RECENT_CAP)
            /\ \A j \in 2..Len(recentLaunches') :
                  recentLaunches'[j] = recentLaunches[j - 1]]_vars

\* The history is full and the record of the first buy has been dropped
C25_Witness ==
    /\ totalLaunches = RECENT_CAP + 1
    /\ Len(recentLaunches) = RECENT_CAP
    /\ recentLaunches[RECENT_CAP].signature = 2
    /\ Len(GetStatusRecent) = RECENT_SHOWN

\* C27: the dedupe set never holds more than PROCESSED_HIGH_WATER
\* identifiers; an insert into a set below that size adds the identifier,
\* and an insert into a set of that size leaves exactly the PROCESSED_KEEP
\* identifiers inserted last, the new one among them as the latest.
C27_DedupeSetBounded ==
    /\ [](Len(processedTxs) <= PROCESSED_HIGH_WATER)
    /\ [][gateCount' = gateCount + 1 =>
            \E s \in sigPool :
                /\ sigInfo'[s].passes = sigInfo[s].passes + 1
                /\ processedTxs'[Len(processedTxs')] = s
                /\ IF Len(processedTxs) < PROCESSED_HIGH_WATER
                   THEN processedTxs' = Append(processedTxs, s)
                   ELSE /\ Len(processedTxs') = PROCESSED_KEEP
                        /\ \A j \in 1..(PROCESSED_KEEP - 1) :
                              processedTxs'[j] =
                                 processedTxs[PROCESSED_HIGH_WATER - PROCESSED_KEEP
                                              + 1 + j]]_vars

\* The insert that brought the set to PROCESSED_HIGH_WATER + 1 identifiers
\* has cut it: the latest PROCESSED_KEEP of them are left
C27_Witness ==
    /\ gateCount = PROCESSED_HIGH_WATER + 1
    /\ Len(processedTxs) = PROCESSED_KEEP
    /\ processedTxs[1] = PROCESSED_HIGH_WATER + 2 - PROCESSED_KEEP
    /\ processedTxs[PROCESSED_KEEP] = PROCESSED_HIGH_WATER + 1

\* The outcome of a buy on the target by the three gates in their order: the
\* dedupe set, then the threshold (an amount that cannot be read counts as
\* below it), then the cooldown
ByTheGates(event) ==
    IF HasProcessed(processedTxs, event.signature) THEN "DuplicateSkip"
    ELSE IF ~IsNumber(event.solAmount) \/ event.solAmount.val < MIN_BUY_AMOUNT
         THEN "BelowThreshold"
    ELSE IF event.at - lastLaunchTime < launchCooldown THEN "CooldownSkip"
    ELSE "Approved"

\* C28 (as stated): the handling of a buy on the target ends in the one of
\* DuplicateSkip, BelowThreshold, CooldownSkip and Approved that the gates
\* give in their order; an Approved buy sets the cooldown timestamp and
\* invokes a launch, and any other outcome leaves the cooldown timestamp,
\* totalLaunches, the history, the wallets and the launches in flight alone.
C28_FourOutcomes ==
    [][lastEvent'.outcome \in {"DuplicateSkip", "BelowThreshold", "Threw",
                               "TestSkip", "CooldownSkip", "Approved"} =>
          /\ lastEvent'.outcome = ByTheGates(lastEvent')
          /\ IF lastEvent'.outcome = "Approved"
             THEN /\ lastLaunchTime' = now'
                  /\ approvedAt' = now'
             ELSE UNCHANGED <<lastLaunchTime, approvedAt, statsVars, walletVars,
                              fbStats, tasks>>]_vars

\* The step handled a trade message that is not a buy on the target
OtherTrade ==
    /\ lastEvent'.txType \in {"buy", "sell"}
    /\ lastEvent'.txType # "buy" \/ lastEvent'.mint # targetCA

\* The step invoked launchAnnoyingCoin or wrote the cooldown timestamp
Launched ==
    \/ \E s \in sigPool : sigInfo'[s].launches > sigInfo[s].launches
    \/ Len(tasks') > Len(tasks)
    \/ lastLaunchTime' # lastLaunchTime
    \/ approvedAt' # approvedAt

\* C29: a step that invokes a launch or writes the cooldown timestamp handles
\* a buy whose mint is the target; a sell and a trade on another mint are
\* ignored, also with a new signature, an amount at the minimum and the
\* cooldown clear, and do not enter the dedupe set.
C29_OnlyTargetBuysLaunch ==
    [][/\ Launched => lastEvent'.txType = "buy" /\ lastEvent'.mint = targetCA
       /\ OtherTrade => /\ ~Launched
                        /\ lastEvent'.outcome = "Ignored"
                        /\ UNCHANGED <<processedTxs, statsVars, walletVars>>]_vars

\* A sell on the target with a new signature and the cooldown clear was
\* ignored, as was a buy on another mint
C29_Witness ==
    /\ lastEvent.outcome = "Ignored"
    /\ lastEvent.mint = TargetCA
    /\ lastEvent.txType = "sell"
    /\ ~HasProcessed(processedTxs, lastEvent.signature)
    /\ lastEvent.solAmount = Num(MIN_BUY_AMOUNT)
    /\ lastEvent.at - lastLaunchTime >= LAUNCH_COOLDOWN
    /\ tasks = <<>>

\* C30: in the step in which a launch returns its success record the
\* launchCount of the wallet it used is one higher than before, in the pool,
\* and the launchCount of every other wallet of the pool is as before.
C30_UsedWalletCounted ==
    [][lastResult'.kind = "Success" =>
          \E k \in InFlight :
              /\ tasks[k].pc = "platform"
              /\ tasks[k].signature = lastResult'.signature
              /\ FindWallet(childWallets', tasks[k].wallet) # 0
              /\ CountOf(childWallets', tasks[k].wallet)
                    = CountOf(childWallets, tasks[k].wallet) + 1
              /\ Len(childWallets') = Len(childWallets)
              /\ \A j \in 1..Len(childWallets) :
                    childWallets[j].publicKey # tasks[k].wallet =>
                        childWallets'[j] = childWallets[j]]_vars

\* C26 (as stated): in the pipeline of onLogs and pollRecentTransactions a
\* launch is invoked only when LAUNCH_COOLDOWN has passed since the launch
\* invoked before it, also when the handling of two transactions interleaves.
C26_OneLaunchPerWindow ==
    [][(\E s \in sigPool : sigInfo'[s].launches > sigInfo[s].launches)
          => now' - lastLaunchTime >= launchCooldown]_vars

\* The fee getBuyAmount reckons with, the accounts whose balance went down by
\* more than it, and what such an account counts for
Decrease(tx, i) == tx.preBalances[i] - tx.postBalances[i]
Qualifying(tx) == {i \in 1..Len(tx.preBalances) : Decrease(tx, i) > FeeOf(tx)}
Spend(tx, i) == Decrease(tx, i) - (IF i = 1 THEN FeeOf(tx) ELSE 0)
Unavailable(tx) == tx.state # "ok" \/ Len(tx.preBalances) = 0

\* C31: getBuyAmount returns null when the transaction or its balance data is
\* unavailable, 0 when no account decreased by more than the fee, and else the
\* maximum over the accounts that decreased by more than the fee of the
\* decrease, less the fee for account 0 only.
C31_MaxQualifyingDecrease ==
    buyAmount # NotCalled =>
        IF Unavailable(txInfo) THEN buyAmount = Null
        ELSE IF Qualifying(txInfo) = {} THEN buyAmount = Num(0)
        ELSE /\ buyAmount.kind = "number"
             /\ \E i \in Qualifying(txInfo) : buyAmount.val = Spend(txInfo, i)
             /\ \A i \in Qualifying(txInfo) : Spend(txInfo, i) <= buyAmount.val

\* getBuyAmount has returned for a transaction where the fee payer and one
\* more account qualify and the other account's decrease, the smaller one
\* before the fee, is the maximum
C31_Witness ==
    /\ buyAmount # NotCalled
    /\ ~Unavailable(txInfo)
    /\ Qualifying(txInfo) = {1, 2}
    /\ Decrease(txInfo, 1) > Decrease(txInfo, 2)
    /\ buyAmount = Num(Decrease(txInfo, 2))

\* C32 (as stated): two overlapping getNextWallet calls never both transfer
\* funds from the master to a new wallet: at no time have two launches in
\* flight each had their transfer to a new wallet confirmed and not yet
\* added that wallet to the pool.
C32_OneTransferPerExhaustion ==
    Cardinality({k \in InFlight : tasks[k].pc = "save"}) <= 1

\* A step that creates a socket, and one that invokes launchAnnoyingCoin
OpensConnection ==
    \E s \in SocketKinds : s.state = "connecting" /\ sockets'[s] > sockets[s]
InvokesLaunch == lastLaunchTime' # lastLaunchTime

\* C33 (as stated): while monitoring is stopped, from the return of
\* stopMonitoring to the next call of startMonitoring, no step opens an
\* upstream connection and no step invokes a launch, also when a reconnect
\* timer was pending at the stop.
C33_StoppedStaysStopped ==
    [][~isMonitoring /\ ~isMonitoring' => ~OpensConnection /\ ~InvokesLaunch]_vars

\* The sockets of channel c that are connecting or open
Live(c) ==
    sockets[[chan |-> c, state |-> "connecting", held |-> TRUE]]
    + sockets[[chan |-> c, state |-> "connecting", held |-> FALSE]]
    + sockets[[chan |-> c, state |-> "open", held |-> TRUE]]
    + sockets[[chan |-> c, state |-> "open", held |-> FALSE]]

\* C34 (as stated): at any time each upstream channel has at most one socket
\* that is open or connecting, whatever the sequence of startMonitoring,
\* stopMonitoring, close events and reconnect timers.
C34_OneSocketPerChannel == \A c \in Channels : Live(c) <= 1

\* C35 (as stated): in test mode the successful launches of a session never
\* exceed MAX_TEST_LAUNCHES, also when an event is approved while an earlier
\* launch is in flight.
C35_TestLimitHolds == testMode => sessionLaunches <= MAX_TEST_LAUNCHES

\* A step in which a launch returns success=true, and one in which
\* loadStatsFromFirebase assigns what it read
LaunchSucceeds == sessionLaunches' = sessionLaunches + 1
StatsAssigned == monitorPc = "loading" /\ monitorPc' = "running"

\* C36 (as stated): while monitoring runs totalLaunches goes up by exactly 1
\* in a step where a launch returns success=true and stays as it is in every
\* other step; the load of a run sets the value the run counts from, and it
\* does not take the count back below what the run has already counted.
C36_TotalCountsSuccesses ==
    [][isMonitoring /\ isMonitoring'
         => IF StatsAssigned
            THEN statsRun.successes > 0 => totalLaunches' >= totalLaunches
            ELSE totalLaunches' = totalLaunches + (IF LaunchSucceeds THEN 1 ELSE 0)]_vars

====
